---- MODULE Spec2Model ----
\* The libcontainerd client of the engine: client.Create / container.start,
\* container.handleEvent, container.clean / cleanProcess, the per-id queue of
\* backend notifications and the event loop that feeds handleEvent.
EXTENDS Integers, Sequences, FiniteSets, TLC

\* ---------------------------------------------------------------- bounds
\* Events received from the shim, for a container found in the table, in one
\* behaviour: with two container ids, and with one.
MaxEvents == 2
MaxSeqEvents == 3
\* Exit notifiers created, and close() calls made by the callers of the
\* notifier, in one behaviour.
MaxNotifiers == 2
\* Calls of TriggerHandleStream in one behaviour, and events received from
\* the shim beside them.
MaxTriggers == 2
MaxTrigEvents == 1
MaxCloseCalls == 3
\* Calls of client.Signal in one behaviour, and events received from the shim
\* beside them.
MaxSignals == 1
MaxSigEvents == 1
\* Calls of Close on wrapped stdins in one behaviour.
MaxStdinCalls == 2
\* Tasks submitted to the Supervisor in one behaviour.
MaxTasks == 3

\* ------------------------------------------------------------- universes
Ids == {"c1", "c2"}
Procs == {"p1", "p2"}
\* the callers of client.Create: each makes one call
Threads == {"t1", "t2"}
\* the ids a caller may pass: the first caller's id is named c1
CallIds(t) == IF t = "t1" THEN {"c1"} ELSE Ids
\* the goroutines calling exitNotifier.close, and those receiving from wait()
Closers == {"k1", "k2"}
Waiters == {"w1", "w2"}
\* the caller of client.Signal, and the signal numbers it passes (an int)
\* the container objects: each caller of Create makes at most one
Objs == 1..Cardinality(Threads)
Signaller == "s1"
Sigs == {9, 0 - 1}

InitFriendlyName == "init"
StateStart == "start-container"
StatePause == "pause"
StateResume == "resume"
StateExit == "exit"
StateExitProcess == "exit-process"
StateOOM == "oom"

\* the nil error
Nil == "nil"
\* the error of the already-active check
ErrActive == "already active"
\* the error of getContainer for an id that is not in the table
ErrNotFound == "invalid container"
\* Supervisor: the handler's marker for a result delivered later, the error
\* for an id that is not in s.containers, and any error of the runtime
errDeferredResponse == "deferred"
ErrContainerNotFound == "container not found"
RuntimeError == "runtime error"
\* the type of the event addProcess gives to the subscribers
StateStartProcess == "start-process"
\* the pids the runtime may report for a new process
SystemPids == {7, 8}
\* the process id of an AddProcess task
TaskPid == "p1"
\* the kinds of task
StartTask == "StartTask"
StatsTask == "StatsTask"
AddProcessTask == "AddProcessTask"
TaskKinds == {StartTask, StatsTask, AddProcessTask}
\* no container object / no lock holder
NoObj == 0
NoHolder == "-"

\* keys of the notification queue: any string the code may pass to q.append
Keys == Ids \cup Procs \cup {InitFriendlyName}

\* The events the shim sends: a pid and an exit status are carried by exit
\* events.
EventTypes == {StateExit, StatePause, StateResume, StateOOM, StateStart}
Events ==
    [Type : {StateExit}, Id : Ids, Pid : {InitFriendlyName}, Status : {0, 1}]
    \cup [Type : {StateExit}, Id : Ids, Pid : Procs, Status : {1}]
    \cup [Type : EventTypes \ {StateExit}, Id : Ids, Pid : {InitFriendlyName},
           Status : {0}]

VARIABLES
    containers,   \* clnt.containers: id -> container object (NoObj = absent)
    ctrs,         \* the container objects registered so far, by number
    dirs,         \* id -> the bundle directory of id exists on disk
    noclean,      \* LIBCONTAINERD_NOCLEAN == "1"
    watch,        \* whether the results of the event path are recorded in obs
                  \* and those of the Supervisor's handlers in sObs
    locker,       \* clnt.locker: id -> holder of the per-id lock
    pc,           \* thread -> position inside client.Create
    arg,          \* thread -> containerID of its Create call
    cur,          \* thread -> the container object of its Create call
    ret,          \* the Create call that returned in the last step (its id, its
                  \* container object, the error returned, the position it
                  \* returned from), or NoRet
    cleanRes,     \* what the clean-up container.clean() of the last step (the
                  \* deferred one of Create, the one of handleEvent) returned:
                  \* "nil", "error", or "none" when the step made no such call
    shimAck,      \* object number -> system pid the shim answered (0 = none)
    evPc,         \* position of the event loop
    evCur,        \* the event being handled, with its number in the stream
    evObj,        \* the container object the event loop looked up
    nEvents,      \* events received for a container the lookup found
    q,            \* clnt.q: key -> queued notification closures, head first
    qRunning,     \* key -> the head closure is inside backend.StateChanged
    oomHandled,   \* the container objects an OOM event was applied to
    exited,       \* the container objects an init Exit event was applied to
    note,         \* the notification handed to backend.StateChanged in the last
                  \* step, or NoNote
    lastSeq,      \* id -> the sequence number of the last event notification
                  \* handed to the backend for id (0 = none)
    obs           \* with watch, what the event path did in the last step:
                  \* handleEvent has returned, or a queued closure has ended
                  \* (with what StateChanged returned and what the pause
                  \* monitor was given); else NoObs

VARIABLES
    fifos          \* the container objects whose stdio FIFOs are open

VARIABLES
    exitNotifiers, \* clnt.exitNotifiers: id -> notifier number (NoObj = absent)
    ens,           \* the exit notifiers made so far, by number: their id, the
                   \* state of en.once and how often close(en.c) was executed
    mapMutex,      \* clnt.mapMutex: the caller of close holding it (NoHolder = free)
    closerPc,      \* caller of close -> position inside exitNotifier.close
    closerEn,      \* caller of close -> the notifier it is closing
    nCloseCalls,   \* close() calls made so far by the callers
    waiterPc,      \* waiter -> position: idle, blocked on <-en.wait(), unblocked
    waiterEn       \* waiter -> the notifier it waits on

VARIABLES
    trigPc,        \* position of the caller of TriggerHandleStream
    trigObj,       \* the container object it looked up
    trigCur,       \* the synthetic event it built, with its number
    nTriggers,     \* calls of TriggerHandleStream made so far
    trigRes        \* the last call that returned: its id, the error returned
                   \* and the number of events taken in hand before it returned

VARIABLES
    sigPc,         \* position of the caller of client.Signal
    sigArg,        \* the containerID and sig of its call
    sigReq,        \* the last SignalRequest the shim has received
    sigSent,       \* the number of SignalRequests the shim has received
    nSignals,      \* calls of Signal made so far
    sigRes         \* the last call that returned: what the shim answered and
                   \* the error Signal returned

VARIABLES
    stdinCloses,   \* container object -> the calls of Close() on the FIFO under
                   \* its wrapped stdin so far
    stdinSent,     \* container object -> the 'stdin closed' notifications sent
                   \* to the shim for it so far
    nStdinCalls,   \* calls of Close on wrapped stdins made so far
    stdinRet,      \* the last call of Close on a wrapped stdin: its container
                   \* object, whether it ran the function of stdinOnce, and
                   \* what it returned; NoStdinRet before the first call
    stdinPc        \* container object -> the wrapped stdin of its start: open,
                   \* or the position of the goroutine started by its Close
                   \* (wait, check), or how that goroutine ended (sent,
                   \* abandoned)

VARIABLES
    sObs,          \* with watch, what the handler of the last step of the task
                   \* loop was given by the runtime, what it returned and
                   \* what it sent, in order; else NoSupObs
    sContainers,   \* Supervisor s.containers: id -> the container made by
                   \* runtime.New (by number, NoObj = absent)
    sMade,         \* the containers runtime.New has made so far
    tasks,         \* the tasks submitted so far: kind and container id
    errCh,         \* task -> the values sent on its error channel, each with
                   \* its sender (the task loop or a worker)
    sTasks,        \* s.tasks: the tasks waiting for the task loop, in order
    loopPc,        \* the task loop: idle, or inside container.Exec
    loopTask,      \* the task the loop is handling
    startTasks,    \* s.startTasks: the start tasks handed to the workers
    statsRunning,  \* the stats tasks whose goroutine is inside container.Stats
    statSending,   \* the stats tasks whose goroutine has sent nil on the error
                   \* channel and has the stat still to send
    statCh,        \* task -> the number of stats sent on its t.Stat
    startResponse, \* task -> the number of values sent on its t.StartResponse
    subscribed     \* the tasks for which notifySubscribers was called

createVars == <<pc, arg, cur>>
\* what the Supervisor sends beside the error: stats, start responses, events
respVars == <<statSending, statCh, startResponse, subscribed>>
supVars == <<sObs, sContainers, sMade, tasks, errCh, sTasks, loopPc, loopTask,
             startTasks, statsRunning, respVars>>
stdinVars == <<stdinPc, stdinCloses, stdinSent, nStdinCalls, stdinRet>>
sigVars == <<sigPc, sigArg, sigReq, sigSent, nSignals, sigRes>>
trigVars == <<trigPc, trigObj, trigCur, nTriggers, trigRes>>
notifVars == <<exitNotifiers, ens>>
closerVars == <<mapMutex, closerPc, closerEn, nCloseCalls, waiterPc, waiterEn>>
\* the state of client.Signal, of the stdin wrapper and of the Supervisor
otherVars == <<sigVars, stdinVars, supVars>>
\* the state outside client.Create, container.start and the event path
extVars == <<notifVars, closerVars, trigVars, otherVars>>
evVars == <<evPc, evCur, evObj, nEvents>>
hist == <<oomHandled, exited>>
\* the state of client.Create, container.start and the event path
clientVars == <<containers, ctrs, dirs, noclean, watch, locker, createVars, ret,
                cleanRes, shimAck, fifos, evVars, q, qRunning, hist, note, lastSeq, obs>>
\* the same without the observations of the last step
coreVars == <<containers, ctrs, dirs, noclean, watch, locker, createVars, shimAck, fifos,
              fifos, evVars, q, qRunning, hist, lastSeq>>
vars == <<clientVars, extVars>>

NoEvent == [Type |-> "none", Id |-> "none", Pid |-> "none", Status |-> 0, Seq |-> 0]
NoRet == [id |-> "none", obj |-> NoObj, err |-> "none", at |-> "none"]
NoSigArg == [id |-> "none", sig |-> 0]
NoSigReq == [Id |-> "none", Pid |-> "none", Signal |-> [hi |-> 0, lo |-> 0]]
NoSigRes == [shim |-> "none", err |-> "none"]
NoTrigRes == [id |-> "none", err |-> "none", after |-> 0]
NoSupObs == [kind |-> "none", n |-> 0, exec |-> "none", mon |-> "none", ret |-> "none",
             out |-> <<>>]
NoStdinRet == [obj |-> NoObj, first |-> FALSE, err |-> "none"]
NoObs == [kind |-> "none", err |-> "none", pause |-> "none"]
NoNote == [Id |-> "none", Seq |-> 0, Obj |-> NoObj, State |-> "none",
           ProcessID |-> "", ExitCode |-> 0, OOMKilled |-> FALSE, Pid |-> 0]

\* ------------------------------------------------------ container.clean
\* clean() returns an error: NOCLEAN is off and Lstat or RemoveAll fails.
cleanFails(fsOk) ==
    ~noclean /\ ~fsOk

\* what clean() returns
cleanResult(fsOk) ==
    IF cleanFails(fsOk) THEN "error" ELSE "nil"

\* the directories d after ctr.clean() on the directory of id
clean(d, id, fsOk) ==
    IF ~noclean /\ fsOk /\ d[id] THEN [d EXCEPT ![id] = FALSE] ELSE d

\* ------------------------------------------------------ client table
getContainer(id) ==
    containers[id]

appendContainer(tbl, id, o) ==
    [tbl EXCEPT ![id] = o]

deleteContainer(tbl, id) ==
    [tbl EXCEPT ![id] = NoObj]

newContainer(id) ==
    [containerID |-> id, oom |-> FALSE, systemPid |-> 0, processes |-> {}]

\* the system pid the shim answers for the container of object o
ShimPid(o) ==
    100 + o

\* the client as constructed, but for its registry of exit notifiers
ClientConstructed ==
    /\ containers = [i \in Ids |-> NoObj]
    /\ ctrs = <<>>
    /\ dirs = [i \in Ids |-> FALSE]
    /\ noclean \in BOOLEAN
    /\ locker = [i \in Ids |-> NoHolder]
    /\ pc = [t \in Threads |-> "idle"]
    /\ arg = [t \in Threads |-> "c1"]
    /\ cur = [t \in Threads |-> NoObj]
    /\ ret = NoRet
    /\ cleanRes = "none"
    /\ shimAck = <<>>
    /\ fifos = {}
    /\ evPc = "recv"
    /\ evCur = NoEvent
    /\ evObj = NoObj
    /\ nEvents = 0
    /\ q = [k \in Keys |-> <<>>]
    /\ qRunning = [k \in Keys |-> FALSE]
    /\ oomHandled = {}
    /\ exited = {}
    /\ note = NoNote
    /\ obs = NoObs
    /\ lastSeq = [i \in Ids |-> 0]
    /\ mapMutex = NoHolder
    /\ closerPc = [k \in Closers |-> "idle"]
    /\ closerEn = [k \in Closers |-> NoObj]
    /\ nCloseCalls = 0
    /\ waiterPc = [w \in Waiters |-> "idle"]
    /\ waiterEn = [w \in Waiters |-> NoObj]
    /\ trigPc = "idle"
    /\ trigObj = NoObj
    /\ trigCur = NoEvent
    /\ nTriggers = 0
    /\ sigPc = "idle"
    /\ sigArg = NoSigArg
    /\ sigReq = NoSigReq
    /\ sigSent = 0
    /\ nSignals = 0
    /\ sigRes = NoSigRes
    /\ stdinPc = [o \in Objs |-> "open"]
    /\ stdinCloses = [o \in Objs |-> 0]
    /\ stdinSent = [o \in Objs |-> 0]
    /\ nStdinCalls = 0
    /\ stdinRet = NoStdinRet
    /\ sContainers = [i \in Ids |-> NoObj]
    /\ sMade = 0
    /\ tasks = <<>>
    /\ errCh = <<>>
    /\ sTasks = <<>>
    /\ loopPc = "idle"
    /\ loopTask = 0
    /\ startTasks = {}
    /\ statsRunning = {}
    /\ statSending = {}
    /\ statCh = <<>>
    /\ startResponse = <<>>
    /\ sObs = NoSupObs
    /\ subscribed = {}
    /\ trigRes = NoTrigRes

\* the client as constructed: no exit notifier is made or registered
Constructed ==
    /\ ClientConstructed
    /\ exitNotifiers = [i \in Ids |-> NoObj]
    /\ ens = <<>>

\* The client as constructed; the results of the event path are not recorded.
Init ==
    /\ Constructed
    /\ watch = FALSE

\* The same client with the results of the event path recorded in obs.
InitSeen ==
    /\ Constructed
    /\ watch = TRUE

\* ------------------------------------------------------ faulty variants
\* Variants of the definitions below with one plausible slip each; a property
\* that reads a definition is expected to fail when the variant stands in.

\* the event of TriggerHandleStream without its Pid
TriggerEventNoPid(cId, seq) ==
    [Type |-> "exit", Id |-> cId, Pid |-> "", Status |-> 0, Seq |-> seq]

\* handleEvent with a case for every type
HandledTypesAll ==
    {StateExit, StatePause, StateResume, StateOOM, StateStart, StateExitProcess}

\* the wrapped stdin without stdinOnce
FirstCloseAlways(o) ==
    TRUE

\* handleEvent without the lock of the container
lockSkipped(id) ==
    TRUE

\* Create without the deferred unlock
NoDeferredUnlock(l, id) ==
    l

\* once.Do without its guard
OnceAlways(once) ==
    TRUE

\* the deferred clean-up without clnt.deleteContainer
DeferredCleanOnly(id, e, d) ==
    IF e # Nil
    THEN /\ \E fsOk \in BOOLEAN :
              /\ dirs' = clean(d, id, fsOk)
              /\ cleanRes' = cleanResult(fsOk)
         /\ UNCHANGED containers
    ELSE /\ dirs' = d
         /\ cleanRes' = "none"
         /\ UNCHANGED containers

\* Create without the already-active check
NeverActive(id) ==
    FALSE

\* start without the assignment of ctr.systemPid
RecordNoPid(o, pid) ==
    ctrs

\* the StateInfo without the exit status of the event
EventStateInfoNoStatus(o, e) ==
    [State |-> IF e.Type = StateExit /\ e.Pid # InitFriendlyName
               THEN StateExitProcess ELSE e.Type,
     ProcessID |-> IF e.Type = StateExit /\ e.Pid # InitFriendlyName
                   THEN e.Pid ELSE "",
     ExitCode |-> 0,
     OOMKilled |-> e.Type = StateExit /\ ctrs[o].oom]

\* ctr.oom reset by a pause
EventOomClearedByPause(o, e) ==
    IF e.Type = StateOOM THEN TRUE
    ELSE IF e.Type = StatePause THEN FALSE ELSE ctrs[o].oom

\* cleanProcess emptying the registry
cleanAllProcesses(o, id) ==
    {}

\* the notification appended under the process id of the event
QueueKeyByPid(e) ==
    e.Pid

\* ------------------------------------------------------ client.Create
\* The deferred clean-up of Create, registered after the first clean():
\* when the returned error e is not nil, container.clean() (its own error is
\* dropped) and clnt.deleteContainer(containerID). d: the directories when
\* Create returns.
DeferredCleanup(id, e, d) ==
    IF e # Nil
    THEN /\ \E fsOk \in BOOLEAN :
              /\ dirs' = clean(d, id, fsOk)
              /\ cleanRes' = cleanResult(fsOk)
         /\ containers' = deleteContainer(containers, id)
    ELSE /\ dirs' = d
         /\ cleanRes' = "none"
         /\ UNCHANGED containers

\* defer clnt.unlock(containerID): the lock of id is released when Create
\* returns, on every path
DeferredUnlock(l, id) ==
    [l EXCEPT ![id] = NoHolder]

\* Create(id) of thread t returns e: the deferred clean-up when registered
\* (reg), then the deferred clnt.unlock(containerID)
CreateReturns(t, id, e, reg, d) ==
    /\ IF reg
       THEN DeferredCleanup(id, e, d)
       ELSE /\ dirs' = d
            /\ cleanRes' = "none"
            /\ UNCHANGED containers
    /\ locker' = DeferredUnlock(locker, id)
    /\ ret' = [id |-> id, obj |-> cur[t], err |-> e, at |-> pc[t]]
    /\ pc' = [pc EXCEPT ![t] = "done"]
    /\ arg' = [arg EXCEPT ![t] = "c1"]
    /\ cur' = [cur EXCEPT ![t] = NoObj]

\* the already-active check
IsActive(id) ==
    getContainer(id) # NoObj

\* ------------------------------------------------------ container.start
\* ctr.openFifos: the FIFOs of container object o are open
openFifos(f, o) ==
    f \cup {o}

\* ctr.closeFifos(iopipe)
closeFifos(f, o) ==
    f \ {o}

\* what start returns when ctr.spec() fails
SpecReadError ==
    Nil

\* container.start up to the stdio callback: ctr.spec(), ctr.openFifos(), the
\* stdin wrapper and ctr.client.appendContainer(ctr), which puts the container
\* object made by newContainer into the table. d: the directories so far.
StartOpen(t, id, d) ==
    \/ /\ CreateReturns(t, id, SpecReadError, TRUE, d)
       /\ UNCHANGED <<ctrs, shimAck, fifos>>
    \/ /\ CreateReturns(t, id, "openFifos", TRUE, d)
       /\ UNCHANGED <<ctrs, shimAck, fifos>>
    \/ /\ ctrs' = Append(ctrs, newContainer(id))
       /\ shimAck' = Append(shimAck, 0)
       /\ fifos' = openFifos(fifos, Len(ctrs) + 1)
       /\ cur' = [cur EXCEPT ![t] = Len(ctrs) + 1]
       /\ containers' = appendContainer(containers, id, Len(ctrs) + 1)
       /\ pc' = [pc EXCEPT ![t] = "attach"]
       /\ arg' = [arg EXCEPT ![t] = id]
       /\ locker' = [locker EXCEPT ![id] = t]
       /\ dirs' = d
       /\ ret' = NoRet
       /\ cleanRes' = "none"

\* Create after the already-active check: getRootIDs, prepareBundleDir,
\* newContainer and the first container.clean(); then, with the clean-up
\* registered, MkdirAllAs, os.Create and Encode of config.json, and
\* container.start
CreateBundle(t, id) ==
    \/ /\ \E e \in {"getRootIDs", "prepareBundleDir"} :
            CreateReturns(t, id, e, FALSE, dirs)
       /\ UNCHANGED <<ctrs, shimAck, fifos>>
    \/ \E fsOk \in BOOLEAN :
         IF cleanFails(fsOk)
         THEN /\ CreateReturns(t, id, "clean", FALSE, dirs)
              /\ UNCHANGED <<ctrs, shimAck, fifos>>
         ELSE LET d0 == clean(dirs, id, fsOk)
                  d1 == [d0 EXCEPT ![id] = TRUE]
              IN \/ /\ CreateReturns(t, id, "MkdirAllAs", TRUE, d0)
                    /\ UNCHANGED <<ctrs, shimAck, fifos>>
                 \/ /\ \E e \in {"os.Create", "Encode"} :
                         CreateReturns(t, id, e, TRUE, d1)
                    /\ UNCHANGED <<ctrs, shimAck, fifos>>
                 \/ StartOpen(t, id, d1)

\* Create(containerID) is called by thread t and runs, under the per-id lock,
\* up to the stdio callback of container.start
Create(t, id) ==
    /\ pc[t] = "idle"
    /\ locker[id] = NoHolder
    /\ IF IsActive(id)
       THEN /\ CreateReturns(t, id, ErrActive, FALSE, dirs)
            /\ UNCHANGED <<ctrs, shimAck, fifos>>
       ELSE CreateBundle(t, id)
    /\ note' = NoNote
    /\ obs' = NoObs
    /\ UNCHANGED <<noclean, watch, extVars, evVars, q, qRunning, hist, lastSeq>>

\* (faulty variant) the error return of attachStdio without closeFifos
StartAttachNoClose(t) ==
    /\ pc[t] = "attach"
    /\ \/ /\ UNCHANGED fifos
          /\ CreateReturns(t, arg[t], "attachStdio", TRUE, dirs)
       \/ /\ pc' = [pc EXCEPT ![t] = "rpc"]
          /\ ret' = NoRet
          /\ cleanRes' = "none"
          /\ UNCHANGED <<containers, dirs, locker, arg, cur, fifos>>
    /\ note' = NoNote
    /\ obs' = NoObs
    /\ UNCHANGED <<ctrs, noclean, watch, extVars, shimAck, evVars, q, qRunning, hist, lastSeq>>

\* attachStdio(*iopipe) returns: on an error closeFifos and return it; else
\* the CreateContainer request goes to the shim
StartAttach(t) ==
    /\ pc[t] = "attach"
    /\ \/ /\ fifos' = closeFifos(fifos, cur[t])
          /\ CreateReturns(t, arg[t], "attachStdio", TRUE, dirs)
       \/ /\ pc' = [pc EXCEPT ![t] = "rpc"]
          /\ ret' = NoRet
          /\ cleanRes' = "none"
          /\ UNCHANGED <<containers, dirs, locker, arg, cur, fifos>>
    /\ note' = NoNote
    /\ obs' = NoObs
    /\ UNCHANGED <<ctrs, noclean, watch, extVars, shimAck, evVars, q, qRunning, hist, lastSeq>>

\* ctr.systemPid after the shim answered pid
RecordPid(o, pid) ==
    [ctrs EXCEPT ![o].systemPid = pid]

\* the notification start hands to the backend for container object c
StartNotification(o, c) ==
    [Id |-> c.containerID, Seq |-> 0, Obj |-> o, State |-> StateStart,
     ProcessID |-> "", ExitCode |-> 0, OOMKilled |-> FALSE, Pid |-> c.systemPid]

\* apiClient.CreateContainer returns: an error (closeFifos, return it), or
\* the container with its pid; then ctr.systemPid is set, close(ready), the
\* sleep, and backend.StateChanged(containerID, {StateStart, systemPid}) is
\* called
StartRpcReturn(t) ==
    /\ pc[t] = "rpc"
    /\ \/ /\ fifos' = closeFifos(fifos, cur[t])
          /\ CreateReturns(t, arg[t], "CreateContainer", TRUE, dirs)
          /\ note' = NoNote
          /\ obs' = NoObs
          /\ UNCHANGED <<ctrs, shimAck>>
       \/ /\ shimAck' = [shimAck EXCEPT ![cur[t]] = ShimPid(cur[t])]
          /\ ctrs' = RecordPid(cur[t], shimAck'[cur[t]])
          /\ note' = StartNotification(cur[t], ctrs'[cur[t]])
          /\ obs' = NoObs
          /\ pc' = [pc EXCEPT ![t] = "notify"]
          /\ ret' = NoRet
          /\ cleanRes' = "none"
          /\ UNCHANGED <<containers, dirs, locker, arg, cur, fifos>>
    /\ UNCHANGED <<noclean, watch, extVars, evVars, q, qRunning, hist, lastSeq>>

\* backend.StateChanged returns; start and Create return its result
StartNotifyReturn(t) ==
    /\ pc[t] = "notify"
    /\ \E e \in {Nil, "StateChanged"} : CreateReturns(t, arg[t], e, TRUE, dirs)
    /\ note' = NoNote
    /\ obs' = NoObs
    /\ UNCHANGED <<ctrs, noclean, watch, fifos, extVars, shimAck, evVars, q, qRunning, hist, lastSeq>>

\* ------------------------------------------------------ clnt.AddProcess
\* registers process p in the registry of the live container id, under the
\* per-id lock
AddProcess(id, p) ==
    /\ locker[id] = NoHolder
    /\ getContainer(id) # NoObj
    /\ p \notin ctrs[getContainer(id)].processes
    /\ ctrs' = [ctrs EXCEPT ![getContainer(id)].processes = @ \cup {p}]
    /\ ret' = NoRet
    /\ cleanRes' = "none"
    /\ note' = NoNote
    /\ obs' = NoObs
    /\ UNCHANGED <<containers, dirs, noclean, watch, extVars, locker, createVars, shimAck, fifos,
                   evVars, q, qRunning, hist, lastSeq>>

\* ------------------------------------------------------ the event loop
\* events.Recv() and the lookup of the container of e.Id: an event of an
\* unknown container is logged and dropped, the loop goes on
EvRecv(e, max) ==
    /\ evPc = "recv"
    /\ nEvents < max
    /\ IF getContainer(e.Id) = NoObj
       THEN UNCHANGED <<evPc, evCur, evObj, nEvents>>
       ELSE /\ nEvents' = nEvents + 1
            /\ evObj' = getContainer(e.Id)
            /\ evCur' = [Type |-> e.Type, Id |-> e.Id, Pid |-> e.Pid,
                         Status |-> e.Status, Seq |-> nEvents + 1]
            /\ evPc' = "handle"
    /\ ret' = NoRet
    /\ cleanRes' = "none"
    /\ note' = NoNote
    /\ obs' = NoObs
    /\ UNCHANGED <<containers, ctrs, dirs, noclean, watch, extVars, locker, createVars, shimAck, fifos,
                   q, qRunning, hist, lastSeq>>

\* ------------------------------------------------------ container.handleEvent
HandledTypes == {StateExit, StatePause, StateResume, StateOOM}

\* the StateInfo handleEvent builds for event e on container object o
EventStateInfo(o, e) ==
    [State |-> IF e.Type = StateExit /\ e.Pid # InitFriendlyName
               THEN StateExitProcess ELSE e.Type,
     ProcessID |-> IF e.Type = StateExit /\ e.Pid # InitFriendlyName
                   THEN e.Pid ELSE "",
     ExitCode |-> e.Status,
     OOMKilled |-> e.Type = StateExit /\ ctrs[o].oom]

\* ctr.oom after the event
EventOom(o, e) ==
    IF e.Type = StateOOM THEN TRUE ELSE ctrs[o].oom

\* ctr.processes after cleanProcess(id)
cleanProcess(o, id) ==
    ctrs[o].processes \ {id}

\* the key handleEvent appends the notification under
QueueKey(e) ==
    e.Id

\* the closure handleEvent appends to the queue
Closure(o, e, st) ==
    [Seq |-> e.Seq, Obj |-> o, Type |-> e.Type, Id |-> e.Id,
     State |-> st.State, ProcessID |-> st.ProcessID, ExitCode |-> st.ExitCode,
     OOMKilled |-> st.OOMKilled]

\* ctr.client.lock(ctr.containerID) in handleEvent returns: no one holds the
\* lock of id
lockTaken(id) ==
    locker[id] = NoHolder

\* (faulty variant) handleEvent without clnt.deleteContainer
handleEventNoDelete(o, e) ==
    IF e.Type \in HandledTypes
    THEN LET st == EventStateInfo(o, e) IN
         /\ ctrs' = [ctrs EXCEPT ![o].oom = EventOom(o, e),
                                 ![o].processes =
                                     IF st.State = StateExitProcess
                                     THEN cleanProcess(o, st.ProcessID) ELSE @]
         /\ IF st.State = StateExit
            THEN /\ \E fsOk \in BOOLEAN :
                      /\ dirs' = clean(dirs, ctrs[o].containerID, fsOk)
                      /\ cleanRes' = cleanResult(fsOk)
                 /\ UNCHANGED containers
            ELSE /\ cleanRes' = "none"
                 /\ UNCHANGED <<containers, dirs>>
         /\ q' = [q EXCEPT ![QueueKey(e)] = Append(@, Closure(o, e, st))]
    ELSE /\ cleanRes' = "none"
         /\ UNCHANGED <<ctrs, containers, dirs, q>>

\* the body of handleEvent, under the lock, for event e on container object o
handleEvent(o, e) ==
    IF e.Type \in HandledTypes
    THEN LET st == EventStateInfo(o, e) IN
         /\ ctrs' = [ctrs EXCEPT ![o].oom = EventOom(o, e),
                                 ![o].processes =
                                     IF st.State = StateExitProcess
                                     THEN cleanProcess(o, st.ProcessID) ELSE @]
         /\ IF st.State = StateExit
            THEN /\ \E fsOk \in BOOLEAN :
                      /\ dirs' = clean(dirs, ctrs[o].containerID, fsOk)
                      /\ cleanRes' = cleanResult(fsOk)
                 /\ containers' = deleteContainer(containers, e.Id)
            ELSE /\ cleanRes' = "none"
                 /\ UNCHANGED <<containers, dirs>>
         /\ q' = [q EXCEPT ![QueueKey(e)] = Append(@, Closure(o, e, st))]
    ELSE /\ cleanRes' = "none"
         /\ UNCHANGED <<ctrs, containers, dirs, q>>

\* what handleEvent returns for event e
handleEventReturn(e) ==
    Nil

\* handleEvent(e) has returned
HandleEventResult(o, e) ==
    [kind |-> "handleEvent", err |-> handleEventReturn(e), pause |-> "none"]

\* handleEvent(e) on the container looked up: ctr.client.lock(ctr.containerID),
\* the body, the deferred unlock; it returns nil
EvHandle ==
    /\ evPc = "handle"
    /\ lockTaken(ctrs[evObj].containerID)
    /\ handleEvent(evObj, evCur)
    /\ UNCHANGED locker
    /\ evPc' = "recv"
    /\ evCur' = NoEvent
    /\ evObj' = NoObj
    /\ oomHandled' = IF evCur.Type = StateOOM THEN oomHandled \cup {evObj}
                      ELSE oomHandled
    /\ exited' = IF evCur.Type = StateExit /\ evCur.Pid = InitFriendlyName
                  THEN exited \cup {evObj} ELSE exited
    /\ ret' = NoRet
    /\ note' = NoNote
    /\ obs' = IF watch THEN HandleEventResult(evObj, evCur) ELSE NoObs
    /\ UNCHANGED <<noclean, watch, extVars, createVars, shimAck, fifos, nEvents, qRunning, lastSeq>>

\* ------------------------------------------------------ TriggerHandleStream
\* the event TriggerHandleStream(cId) builds
TriggerEvent(cId, seq) ==
    [Type |-> "exit", Id |-> cId, Pid |-> "init", Status |-> 0, Seq |-> seq]

\* TriggerHandleStream(cId) is called: getContainer(cId) without the per-id
\* lock; on its error the call returns it, else the event is built
TriggerHandleStream(cId) ==
    /\ trigPc = "idle"
    /\ nTriggers < MaxTriggers
    /\ nTriggers' = nTriggers + 1
    /\ IF getContainer(cId) = NoObj
       THEN /\ trigRes' = [id |-> cId, err |-> ErrNotFound, after |-> nEvents]
            /\ UNCHANGED <<trigPc, trigObj, trigCur, nEvents>>
       ELSE /\ trigObj' = getContainer(cId)
            /\ trigCur' = TriggerEvent(cId, nEvents + 1)
            /\ nEvents' = nEvents + 1
            /\ trigPc' = "handle"
            /\ trigRes' = NoTrigRes
    /\ ret' = NoRet
    /\ cleanRes' = "none"
    /\ note' = NoNote
    /\ obs' = NoObs
    /\ UNCHANGED <<containers, ctrs, dirs, noclean, watch, locker, createVars, shimAck, fifos,
                   evPc, evCur, evObj, q, qRunning, hist, lastSeq,
                   notifVars, closerVars, otherVars>>

\* container.handleEvent(e) of TriggerHandleStream, under the per-id lock; it
\* returns nil and so does TriggerHandleStream
TriggerHandle ==
    /\ trigPc = "handle"
    /\ lockTaken(ctrs[trigObj].containerID)
    /\ handleEvent(trigObj, trigCur)
    /\ UNCHANGED locker
    /\ trigPc' = "idle"
    /\ trigObj' = NoObj
    /\ trigCur' = NoEvent
    /\ trigRes' = [id |-> trigCur.Id, err |-> Nil, after |-> nEvents]
    /\ exited' = exited \cup {trigObj}
    /\ ret' = NoRet
    /\ note' = NoNote
    /\ obs' = IF watch THEN HandleEventResult(trigObj, trigCur) ELSE NoObs
    /\ UNCHANGED <<noclean, watch, createVars, shimAck, fifos, evVars, qRunning, oomHandled,
                   lastSeq, nTriggers, notifVars, closerVars, otherVars>>

\* a step outside Create and the event path: no Create call returns in it, it
\* runs no clean-up and hands no notification to the backend
NoObservation ==
    /\ ret' = NoRet
    /\ cleanRes' = "none"
    /\ note' = NoNote
    /\ obs' = NoObs

\* ------------------------------------------------------ exitNotifier
\* a new notifier of id: open channel, unused once
newExitNotifier(id) ==
    [id |-> id, once |-> "new", closes |-> 0]

\* getOrCreateExitNotifier(id), under mapMutex: the notifier registered for id,
\* or a new one, which is registered
getOrCreateExitNotifier(id) ==
    /\ Len(ens) < MaxNotifiers
    /\ exitNotifiers[id] = NoObj
    /\ ens' = Append(ens, newExitNotifier(id))
    /\ exitNotifiers' = [exitNotifiers EXCEPT ![id] = Len(ens) + 1]
    /\ NoObservation
    /\ UNCHANGED <<coreVars, closerVars, trigVars, otherVars>>

\* en.once.Do(f) runs f: no call has entered it yet
OnceDo(once) ==
    once = "new"

\* en.once.Do(f) returns at once: f has completed
OnceDone(once) ==
    once = "done"

\* the notifiers after close(en.c) of notifier n inside once.Do
CloseChannel(es, n) ==
    [es EXCEPT ![n].once = "running", ![n].closes = @ + 1]

\* (faulty variant) the mapMutex section deletes the entry of en.id without
\* comparing it with this notifier
UnregisterAlways(reg, es, n) ==
    [reg EXCEPT ![es[n].id] = NoObj]

\* the registry after the mapMutex section of close: the entry of en.id is
\* deleted when it is this notifier
Unregister(reg, es, n) ==
    IF reg[es[n].id] = n THEN [reg EXCEPT ![es[n].id] = NoObj] ELSE reg

\* the notifiers after f of notifier n has returned
OnceCompleted(es, n) ==
    [es EXCEPT ![n].once = "done"]

\* caller k calls en.close() on notifier n: once.Do either runs f, which
\* closes the channel first, or returns at once because f has completed; a
\* call made while f runs waits for it
exitNotifierClose(k, n) ==
    /\ closerPc[k] = "idle"
    /\ nCloseCalls < MaxCloseCalls
    /\ n \in 1..Len(ens)
    /\ nCloseCalls' = nCloseCalls + 1
    /\ IF OnceDo(ens[n].once)
       THEN /\ ens' = CloseChannel(ens, n)
            /\ closerPc' = [closerPc EXCEPT ![k] = "inOnce"]
            /\ closerEn' = [closerEn EXCEPT ![k] = n]
       ELSE /\ OnceDone(ens[n].once)
            /\ UNCHANGED <<ens, closerPc, closerEn>>
    /\ NoObservation
    /\ UNCHANGED <<coreVars, exitNotifiers, mapMutex, waiterPc, waiterEn, trigVars, otherVars>>

\* the rest of f for caller k: the mapMutex section, then once.Do returns
exitNotifierCloseReturn(k) ==
    /\ closerPc[k] = "inOnce"
    /\ exitNotifiers' = Unregister(exitNotifiers, ens, closerEn[k])
    /\ ens' = OnceCompleted(ens, closerEn[k])
    /\ closerPc' = [closerPc EXCEPT ![k] = "idle"]
    /\ closerEn' = [closerEn EXCEPT ![k] = NoObj]
    /\ NoObservation
    /\ UNCHANGED <<coreVars, mapMutex, nCloseCalls, waiterPc, waiterEn, trigVars, otherVars>>

\* caller k, inside f after close(en.c): en.client.mapMutex.Lock()
closeLock(k) ==
    /\ closerPc[k] = "inOnce"
    /\ mapMutex = NoHolder
    /\ mapMutex' = k
    /\ closerPc' = [closerPc EXCEPT ![k] = "locked"]
    /\ NoObservation
    /\ UNCHANGED <<coreVars, notifVars, closerEn, nCloseCalls, waiterPc, waiterEn,
                   trigVars, otherVars>>

\* caller k holds mapMutex: the comparison with the registered notifier and
\* the delete
closeUnregister(k) ==
    /\ closerPc[k] = "locked"
    /\ exitNotifiers' = Unregister(exitNotifiers, ens, closerEn[k])
    /\ closerPc' = [closerPc EXCEPT ![k] = "unlock"]
    /\ NoObservation
    /\ UNCHANGED <<coreVars, ens, mapMutex, closerEn, nCloseCalls, waiterPc, waiterEn,
                   trigVars, otherVars>>

\* caller k: en.client.mapMutex.Unlock(), f returns and once.Do with it
closeUnlock(k) ==
    /\ closerPc[k] = "unlock"
    /\ mapMutex' = NoHolder
    /\ ens' = OnceCompleted(ens, closerEn[k])
    /\ closerPc' = [closerPc EXCEPT ![k] = "idle"]
    /\ closerEn' = [closerEn EXCEPT ![k] = NoObj]
    /\ NoObservation
    /\ UNCHANGED <<coreVars, exitNotifiers, nCloseCalls, waiterPc, waiterEn,
                   trigVars, otherVars>>

\* the registries close can meet: MaxNotifiers notifiers made, each for some
\* id and not yet closed, and under each id either no entry or one of the
\* notifiers made for that id
Registries ==
    {r \in [ens : [1..MaxNotifiers -> {newExitNotifier(id) : id \in Ids}],
            reg : [Ids -> {NoObj} \cup (1..MaxNotifiers)]] :
        \A id \in Ids : r.reg[id] # NoObj => r.ens[r.reg[id]].id = id}

\* the client with one of these registries
InitRegistry ==
    /\ ClientConstructed
    /\ watch = FALSE
    /\ \E r \in Registries :
         /\ ens = r.ens
         /\ exitNotifiers = r.reg

\* the steps of exitNotifier.close, with the mapMutex section step by step
NextRegistry ==
    \/ \E k \in Closers, n \in 1..MaxNotifiers : exitNotifierClose(k, n)
    \/ \E k \in Closers : closeLock(k)
    \/ \E k \in Closers : closeUnregister(k)
    \/ \E k \in Closers : closeUnlock(k)

SpecRegistry ==
    InitRegistry /\ [][NextRegistry]_vars

\* waiter w receives from en.wait() of notifier n
exitNotifierWait(w, n) ==
    /\ waiterPc[w] = "idle"
    /\ n \in 1..Len(ens)
    /\ waiterPc' = [waiterPc EXCEPT ![w] = "blocked"]
    /\ waiterEn' = [waiterEn EXCEPT ![w] = n]
    /\ NoObservation
    /\ UNCHANGED <<coreVars, notifVars, mapMutex, closerPc, closerEn, nCloseCalls, trigVars, otherVars>>

\* the receive of waiter w returns: the channel is closed
WaitReturns(w) ==
    /\ waiterPc[w] = "blocked"
    /\ ens[waiterEn[w]].closes > 0
    /\ waiterPc' = [waiterPc EXCEPT ![w] = "unblocked"]
    /\ NoObservation
    /\ UNCHANGED <<coreVars, notifVars, mapMutex, closerPc, closerEn, nCloseCalls, waiterEn,
                   trigVars, otherVars>>

\* ------------------------------------------------------ the stdin wrapper
\* the channel ready of the start of container object o is closed: start
\* closes it when the shim has answered the create request
ready(o) ==
    shimAck[o] # 0

\* ctx.Done() of the start of container object o: the deferred cancel() has
\* run, start has returned
ctxDone(o) ==
    o <= Len(ctrs) /\ \A t \in Threads : cur[t] # o

\* (faulty variant) no second select: the goroutine sends after the first
SecondSelectNoCheck(o) ==
    "sent"

\* (faulty variant) the goroutine gives up when ctx is done
SecondSelectCtxFirst(o) ==
    IF ready(o) /\ ~ctxDone(o) THEN "sent" ELSE "abandoned"

\* the second select of the goroutine: case <-ready, or default
SecondSelect(o) ==
    IF ready(o) THEN "sent" ELSE "abandoned"

\* stdinOnce.Do runs its function: no call of Close on the wrapped stdin of o
\* has run it yet
FirstClose(o) ==
    stdinPc[o] = "open"

\* what a call of Close on the wrapped stdin returns: the first one what
\* stdin.Close() returned, a later one its own err, which is nil
StdinCloseResult(first, err) ==
    IF first THEN err ELSE Nil

\* Close is called on the wrapped stdin of container object o: the first
\* call, inside stdinOnce.Do, closes the FIFO and starts the goroutine; a
\* later one finds stdinOnce done
StdinClose(o) ==
    /\ o <= Len(ctrs)
    /\ nStdinCalls < MaxStdinCalls
    /\ nStdinCalls' = nStdinCalls + 1
    /\ \E err \in {Nil, "stdin.Close"} :
          stdinRet' = [obj |-> o, first |-> FirstClose(o),
                       err |-> StdinCloseResult(FirstClose(o), err)]
    /\ IF FirstClose(o)
       THEN /\ stdinCloses' = [stdinCloses EXCEPT ![o] = @ + 1]
            /\ stdinPc' = [stdinPc EXCEPT ![o] = "wait"]
       ELSE UNCHANGED <<stdinCloses, stdinPc>>
    /\ NoObservation
    /\ UNCHANGED <<coreVars, notifVars, closerVars, trigVars, sigVars, supVars, stdinSent>>

\* the first select of the goroutine returns: ready is closed or ctx is done
StdinWait(o) ==
    /\ stdinPc[o] = "wait"
    /\ ready(o) \/ ctxDone(o)
    /\ stdinPc' = [stdinPc EXCEPT ![o] = "check"]
    /\ NoObservation
    /\ UNCHANGED <<coreVars, notifVars, closerVars, trigVars, sigVars, supVars,
                   stdinCloses, stdinSent, nStdinCalls, stdinRet>>

\* the second select: with ready closed ctr.sendCloseStdin() tells the shim
\* that stdin is closed, else nothing is sent; the goroutine ends
StdinSend(o) ==
    /\ stdinPc[o] = "check"
    /\ stdinPc' = [stdinPc EXCEPT ![o] = SecondSelect(o)]
    /\ stdinSent' = [stdinSent EXCEPT ![o] = IF SecondSelect(o) = "sent" THEN @ + 1 ELSE @]
    /\ NoObservation
    /\ UNCHANGED <<coreVars, notifVars, closerVars, trigVars, sigVars, supVars,
                   stdinCloses, nStdinCalls, stdinRet>>

\* ------------------------------------------------------ Supervisor
\* the state outside the Supervisor
notSupVars == <<coreVars, notifVars, closerVars, trigVars, sigVars, stdinVars>>

\* the task loop after a handler returned err for task n: a result that is
\* not the deferred marker goes to the task's error channel
handleTask(ch, n, err) ==
    IF err # errDeferredResponse
    THEN [ch EXCEPT ![n] = Append(@, [val |-> err, by |-> "loop"])]
    ELSE ch

\* a worker sends err on the error channel of task n
WorkerSends(ch, n, err) ==
    [ch EXCEPT ![n] = Append(@, [val |-> err, by |-> "worker"])]

\* a caller submits a task of kind k for container id
Submit(k, id) ==
    /\ Len(tasks) < MaxTasks
    /\ tasks' = Append(tasks, [kind |-> k, id |-> id])
    /\ errCh' = Append(errCh, <<>>)
    /\ sTasks' = Append(sTasks, Len(tasks) + 1)
    /\ statCh' = Append(statCh, 0)
    /\ startResponse' = Append(startResponse, 0)
    /\ NoObservation
    /\ sObs' = NoSupObs
    /\ UNCHANGED <<notSupVars, sContainers, sMade, loopPc, loopTask, startTasks,
                   statsRunning, statSending, subscribed>>

\* the task loop takes the next task, of kind k
Dequeue(k) ==
    /\ loopPc = "idle"
    /\ sTasks # <<>>
    /\ tasks[Head(sTasks)].kind = k
    /\ sTasks' = Tail(sTasks)

\* s.containers after start has stored the container runtime.New made
startStores(id) ==
    [sContainers EXCEPT ![id] = sMade + 1]

\* (faulty variant) start hands a start task to the workers after an error of
\* runtime.New too
startQueuesAlways(n, newErr) ==
    <<[Err |-> n, Container |-> sMade + 1, StartResponse |-> n]>>

\* the start tasks start hands to s.startTasks for task n when runtime.New
\* returned newErr: none after an error; else one, with the error channel
\* and the StartResponse channel of the task and the container made
startQueues(n, newErr) ==
    IF newErr # Nil
    THEN <<>>
    ELSE <<[Err |-> n, Container |-> sMade + 1, StartResponse |-> n]>>

\* what start returns
startResult(newErr) ==
    IF newErr # Nil THEN newErr ELSE errDeferredResponse

\* Supervisor.start(t): runtime.New fails and start returns its error, or the
\* container is stored in s.containers, the start task goes to s.startTasks
\* and start returns errDeferredResponse
start ==
    /\ Dequeue(StartTask)
    /\ \E newErr \in {Nil, RuntimeError} :
          LET n == Head(sTasks)
              out == startQueues(n, newErr)
          IN /\ IF newErr # Nil
                THEN UNCHANGED <<sContainers, sMade>>
                ELSE /\ sContainers' = startStores(tasks[n].id)
                     /\ sMade' = sMade + 1
             /\ startTasks' = startTasks \cup {out[i].Err : i \in 1..Len(out)}
             /\ errCh' = handleTask(errCh, n, startResult(newErr))
             /\ sObs' = IF watch
                        THEN [kind |-> "start", n |-> n, exec |-> newErr, mon |-> "none",
                              ret |-> startResult(newErr), out |-> out]
                        ELSE NoSupObs
    /\ NoObservation
    /\ UNCHANGED <<notSupVars, tasks, loopPc, loopTask, statsRunning, respVars>>

\* a worker takes a start task from s.startTasks, starts the container and
\* sends the result on the task's Err
StartWorker(n) ==
    /\ n \in startTasks
    /\ startTasks' = startTasks \ {n}
    /\ \E err \in {Nil, RuntimeError} : errCh' = WorkerSends(errCh, n, err)
    /\ NoObservation
    /\ sObs' = NoSupObs
    /\ UNCHANGED <<notSupVars, sContainers, sMade, tasks, sTasks, loopPc, loopTask,
                   statsRunning, respVars>>

\* (faulty variant) stats starts the goroutine and returns nil
statsReturnsNil ==
    /\ Dequeue(StatsTask)
    /\ LET n == Head(sTasks) IN
       IF sContainers[tasks[n].id] = NoObj
       THEN /\ errCh' = handleTask(errCh, n, ErrContainerNotFound)
            /\ UNCHANGED statsRunning
       ELSE /\ statsRunning' = statsRunning \cup {n}
            /\ errCh' = handleTask(errCh, n, Nil)
    /\ NoObservation
    /\ sObs' = NoSupObs
    /\ UNCHANGED <<notSupVars, sContainers, sMade, tasks, loopPc, loopTask,
                   startTasks, respVars>>

\* Supervisor.stats(t): ErrContainerNotFound for an id not in s.containers;
\* else the goroutine is started and stats returns errDeferredResponse
stats ==
    /\ Dequeue(StatsTask)
    /\ LET n == Head(sTasks) IN
       IF sContainers[tasks[n].id] = NoObj
       THEN /\ errCh' = handleTask(errCh, n, ErrContainerNotFound)
            /\ UNCHANGED statsRunning
       ELSE /\ statsRunning' = statsRunning \cup {n}
            /\ errCh' = handleTask(errCh, n, errDeferredResponse)
    /\ NoObservation
    /\ sObs' = NoSupObs
    /\ UNCHANGED <<notSupVars, sContainers, sMade, tasks, loopPc, loopTask,
                   startTasks, respVars>>

\* (faulty variant) the goroutine of stats goes on after an error too
AfterErrorSentNoReturn(sending, n, err) ==
    sending \cup {n}

\* what the goroutine of stats does after it has sent err: it returns after
\* an error, it goes on to t.Stat <- s after nil
AfterErrorSent(sending, n, err) ==
    IF err # Nil THEN sending ELSE sending \cup {n}

\* the goroutine of stats: i.container.Stats() returns; on an error the error
\* is sent on the error channel and the goroutine returns, else nil is sent
StatsWorker(n) ==
    /\ n \in statsRunning
    /\ statsRunning' = statsRunning \ {n}
    /\ \E err \in {Nil, RuntimeError} :
          /\ errCh' = WorkerSends(errCh, n, err)
          /\ statSending' = AfterErrorSent(statSending, n, err)
    /\ NoObservation
    /\ sObs' = NoSupObs
    /\ UNCHANGED <<notSupVars, sContainers, sMade, tasks, sTasks, loopPc, loopTask,
                   startTasks, statCh, startResponse, subscribed>>

\* the goroutine of stats after t.ErrorCh() <- nil: t.Stat <- s
StatsSend(n) ==
    /\ n \in statSending
    /\ statSending' = statSending \ {n}
    /\ statCh' = [statCh EXCEPT ![n] = @ + 1]
    /\ NoObservation
    /\ sObs' = NoSupObs
    /\ UNCHANGED <<notSupVars, sContainers, sMade, tasks, errCh, sTasks, loopPc,
                   loopTask, startTasks, statsRunning, startResponse, subscribed>>

\* (faulty variant) addProcess calls Exec without the lookup
addProcessNoLookup ==
    /\ Dequeue(AddProcessTask)
    /\ loopPc' = "Exec"
    /\ loopTask' = Head(sTasks)
    /\ UNCHANGED errCh
    /\ NoObservation
    /\ sObs' = NoSupObs
    /\ UNCHANGED <<notSupVars, sContainers, sMade, tasks, startTasks, statsRunning,
                   respVars>>

\* Supervisor.addProcess(t): ErrContainerNotFound for an id not in
\* s.containers; else ci.container.Exec is called, in the task loop
addProcess ==
    /\ Dequeue(AddProcessTask)
    /\ LET n == Head(sTasks) IN
       IF sContainers[tasks[n].id] = NoObj
       THEN /\ errCh' = handleTask(errCh, n, ErrContainerNotFound)
            /\ UNCHANGED <<loopPc, loopTask>>
       ELSE /\ loopPc' = "Exec"
            /\ loopTask' = n
            /\ UNCHANGED errCh
    /\ NoObservation
    /\ sObs' = NoSupObs
    /\ UNCHANGED <<notSupVars, sContainers, sMade, tasks, startTasks, statsRunning,
                   respVars>>

\* (faulty variant) addProcess answers before monitorProcess has returned
addProcessSendsEarly(n, execErr, monErr, pid) ==
    IF execErr # Nil
    THEN <<>>
    ELSE <<[to |-> "StartResponse", n |-> n, ExecPid |-> pid, Type |-> "", ID |-> "",
            PID |-> ""]>>
         \o (IF monErr # Nil
             THEN <<>>
             ELSE <<[to |-> "subscribers", n |-> n, ExecPid |-> 0,
                     Type |-> StateStartProcess, ID |-> tasks[n].id, PID |-> TaskPid]>>)

\* what addProcess sends for task n, in order, when Exec returned execErr
\* with a process of system pid `pid` and monitorProcess returned monErr:
\* nothing after an error; else the StartResponse with the pid on
\* t.StartResponse and then the start-process event to the subscribers
addProcessSends(n, execErr, monErr, pid) ==
    IF execErr # Nil \/ monErr # Nil
    THEN <<>>
    ELSE <<[to |-> "StartResponse", n |-> n, ExecPid |-> pid, Type |-> "", ID |-> "",
            PID |-> ""],
           [to |-> "subscribers", n |-> n, ExecPid |-> 0,
            Type |-> StateStartProcess, ID |-> tasks[n].id, PID |-> TaskPid]>>

\* what addProcess returns
addProcessResult(execErr, monErr) ==
    IF execErr # Nil THEN execErr ELSE monErr

\* the values of `out` sent to `to`
SentTo(out, to) ==
    SelectSeq(out, LAMBDA m : m.to = to)

\* container.Exec returns: on its error, or on the error of monitorProcess,
\* addProcess returns the error; else it sends the StartResponse, notifies
\* the subscribers and returns nil
addProcessReturn ==
    /\ loopPc = "Exec"
    /\ \E execErr \in {Nil, RuntimeError}, monErr \in {Nil, RuntimeError},
          pid \in SystemPids :
          LET out == addProcessSends(loopTask, execErr, monErr, pid)
              r == addProcessResult(execErr, monErr)
          IN /\ startResponse' = [startResponse EXCEPT ![loopTask] =
                                      @ + Len(SentTo(out, "StartResponse"))]
             /\ subscribed' = IF SentTo(out, "subscribers") # <<>>
                              THEN subscribed \cup {loopTask} ELSE subscribed
             /\ errCh' = handleTask(errCh, loopTask, r)
             /\ sObs' = IF watch
                        THEN [kind |-> "addProcess", n |-> loopTask, exec |-> execErr,
                              mon |-> IF execErr = Nil THEN monErr ELSE "none",
                              ret |-> r, out |-> out]
                        ELSE NoSupObs
    /\ loopPc' = "idle"
    /\ loopTask' = 0
    /\ NoObservation
    /\ UNCHANGED <<notSupVars, sContainers, sMade, tasks, sTasks, startTasks,
                   statsRunning, statSending, statCh>>

\* ------------------------------------------------------ client.Signal
\* uint32(sig), as its two 16-bit halves
Half == 65536
Uint32(sig) ==
    [hi |-> (sig \div Half) % Half, lo |-> sig % Half]

\* the request Signal sends to the shim
SignalRequest(containerID, sig) ==
    [Id |-> containerID, Pid |-> InitFriendlyName, Signal |-> Uint32(sig)]

\* (faulty variant) Signal swallows the shim's answer
SignalResultNil(err) ==
    Nil

\* what Signal returns when the shim answered err
SignalResult(err) ==
    err

\* (faulty variant) Signal under one lock for all container ids
SignalGlobalLock(containerID, sig) ==
    /\ sigPc = "idle"
    /\ nSignals < MaxSignals
    /\ \A i \in Ids : locker[i] = NoHolder
    /\ locker' = [locker EXCEPT ![containerID] = Signaller]
    /\ sigPc' = "rpc"
    /\ sigArg' = [id |-> containerID, sig |-> sig]
    /\ sigReq' = SignalRequest(containerID, sig)
    /\ sigSent' = sigSent + 1
    /\ nSignals' = nSignals + 1
    /\ sigRes' = NoSigRes
    /\ NoObservation
    /\ UNCHANGED <<containers, ctrs, dirs, noclean, watch, createVars, shimAck, fifos,
                   evVars, q, qRunning, hist, lastSeq, notifVars, closerVars,
                   trigVars, stdinVars, supVars>>

\* Signal(containerID, sig): clnt.lock(containerID), and the request goes to
\* the shim
Signal(containerID, sig) ==
    /\ sigPc = "idle"
    /\ nSignals < MaxSignals
    /\ locker[containerID] = NoHolder
    /\ locker' = [locker EXCEPT ![containerID] = Signaller]
    /\ sigPc' = "rpc"
    /\ sigArg' = [id |-> containerID, sig |-> sig]
    /\ sigReq' = SignalRequest(containerID, sig)
    /\ sigSent' = sigSent + 1
    /\ nSignals' = nSignals + 1
    /\ sigRes' = NoSigRes
    /\ NoObservation
    /\ UNCHANGED <<containers, ctrs, dirs, noclean, watch, createVars, shimAck, fifos,
                   evVars, q, qRunning, hist, lastSeq, notifVars, closerVars,
                   trigVars, stdinVars, supVars>>

\* apiClient.Signal returns what the shim answered; Signal returns it, and the
\* deferred clnt.unlock(containerID)
SignalReturn ==
    /\ sigPc = "rpc"
    /\ \E err \in {Nil, "shim error"} :
          sigRes' = [shim |-> err, err |-> SignalResult(err)]
    /\ locker' = [locker EXCEPT ![sigArg.id] = NoHolder]
    /\ sigPc' = "idle"
    /\ sigArg' = NoSigArg
    /\ NoObservation
    /\ UNCHANGED <<containers, ctrs, dirs, noclean, watch, createVars, shimAck, fifos,
                   evVars, q, qRunning, hist, lastSeq, notifVars, closerVars,
                   trigVars, sigReq, sigSent, nSignals, stdinVars, supVars>>

\* ------------------------------------------------------ clnt.q
\* the notification a closure hands to backend.StateChanged
Notification(c) ==
    [Id |-> c.Id, Seq |-> c.Seq, Obj |-> c.Obj, State |-> c.State,
     ProcessID |-> c.ProcessID, ExitCode |-> c.ExitCode, OOMKilled |-> c.OOMKilled, Pid |-> 0]

\* the goroutine of the head closure of key k starts: the closures appended
\* before it under k are done; it calls backend.StateChanged(e.Id, st)
QRun(k) ==
    /\ q[k] # <<>>
    /\ ~qRunning[k]
    /\ qRunning' = [qRunning EXCEPT ![k] = TRUE]
    /\ note' = Notification(Head(q[k]))
    /\ obs' = NoObs
    /\ lastSeq' = [lastSeq EXCEPT ![Head(q[k]).Id] = Head(q[k]).Seq]
    /\ ret' = NoRet
    /\ cleanRes' = "none"
    /\ UNCHANGED <<containers, ctrs, dirs, noclean, watch, extVars, locker, createVars, shimAck, fifos,
                   evVars, q, hist>>

\* the closure goes on to the exit notifier after StateChanged
ClosesNotifier(c) ==
    c.Type = StateExit

\* clnt.getExitNotifier(id), under mapMutex
getExitNotifier(id) ==
    exitNotifiers[id]

\* (faulty variant) the closure returns when StateChanged returned an error
GoesOnOnlyAfterNil(eErr) ==
    eErr = Nil

\* the closure after StateChanged returned eErr: an error is logged, and the
\* closure goes on
GoesOn(eErr) ==
    TRUE

\* (faulty variant) the closure without the call of the pause monitor
PauseHandledNever(c) ==
    "none"

\* what the closure gives to ctr.pauseMonitor.handle
PauseHandled(c) ==
    IF c.Type = StatePause \/ c.Type = StateResume THEN c.Type ELSE "none"

\* the closure c has ended, StateChanged having returned eErr
ClosureResult(c, eErr) ==
    [kind |-> "closure", err |-> eErr,
     pause |-> IF GoesOn(eErr) THEN PauseHandled(c) ELSE "none"]

\* StateChanged returns (an error is only logged); for Pause and Resume the
\* closure tells the pause monitor; for an event of type exit it closes the
\* exit notifier registered for e.Id, if any; the closure ends, close(done)
QDone(k) ==
    /\ qRunning[k]
    /\ qRunning' = [qRunning EXCEPT ![k] = FALSE]
    /\ q' = [q EXCEPT ![k] = Tail(@)]
    /\ \E eErr \in {Nil, "StateChanged"} :
         LET c == Head(q[k])
             n == getExitNotifier(c.Id)
         IN /\ obs' = IF watch THEN ClosureResult(c, eErr) ELSE NoObs
            /\ IF GoesOn(eErr) /\ ClosesNotifier(c) /\ n # NoObj
               THEN /\ ens[n].once # "running"
                    /\ IF OnceDo(ens[n].once)
                       THEN /\ ens' = OnceCompleted(CloseChannel(ens, n), n)
                            /\ exitNotifiers' = Unregister(exitNotifiers, ens, n)
                       ELSE UNCHANGED notifVars
               ELSE UNCHANGED notifVars
    /\ ret' = NoRet
    /\ cleanRes' = "none"
    /\ note' = NoNote
    /\ UNCHANGED <<containers, ctrs, dirs, noclean, watch, closerVars, trigVars, otherVars, locker,
                   createVars, shimAck, fifos, evVars, hist, lastSeq>>

\* the steps of the exit notifiers with their callers and waiters
NextNotifier ==
    \/ \E id \in Ids : getOrCreateExitNotifier(id)
    \/ \E k \in Closers, n \in 1..MaxNotifiers : exitNotifierClose(k, n)
    \/ \E k \in Closers : exitNotifierCloseReturn(k)
    \/ \E w \in Waiters, n \in 1..MaxNotifiers : exitNotifierWait(w, n)
    \/ \E w \in Waiters : WaitReturns(w)

\* a goroutine blocked on a closed channel is woken up; a caller inside
\* once.Do gets to its end
SpecNotifier ==
    /\ Init /\ [][NextNotifier]_vars
    /\ \A w \in Waiters : WF_vars(WaitReturns(w))
    /\ \A k \in Closers : WF_vars(exitNotifierCloseReturn(k))

\* the steps of the client with container ids `ids` and at most max events
NextOver(ids, procs, max) ==
    \/ \E t \in Threads, id \in ids : id \in CallIds(t) /\ Create(t, id)
    \/ \E t \in Threads : StartAttach(t)
    \/ \E t \in Threads : StartRpcReturn(t)
    \/ \E t \in Threads : StartNotifyReturn(t)
    \/ \E id \in ids, p \in procs : AddProcess(id, p)
    \/ \E e \in Events :
           e.Id \in ids /\ e.Pid \in procs \cup {InitFriendlyName} /\ EvRecv(e, max)
    \/ EvHandle
    \/ \E k \in Keys : QRun(k)
    \/ \E k \in Keys : QDone(k)

\* two container ids, one additional process
Next ==
    NextOver(Ids, {"p1"}, MaxEvents)

Spec ==
    Init /\ [][Next]_vars

\* one container id, longer event sequences
NextOne ==
    NextOver({"c1"}, {"p1"}, MaxSeqEvents)

SpecOne ==
    Init /\ [][NextOne]_vars

\* one container id with exit notifiers
NextExit ==
    \/ NextOver({"c1"}, {"p1"}, MaxEvents)
    \/ getOrCreateExitNotifier("c1")

SpecExit ==
    Init /\ [][NextExit]_vars

\* the same steps with the results of the event path recorded
SpecClosure ==
    InitSeen /\ [][NextExit]_vars

\* events of a type handleEvent has no case for, beside StateStart: the shim
\* reports the exit of a process with the type exit-process
OtherEvents ==
    [Type : {StateExitProcess}, Id : {"c1"}, Pid : {"p1"}, Status : {1}]

\* one container id with exit notifiers and with events of every type
NextTypes ==
    \/ NextExit
    \/ \E e \in OtherEvents : EvRecv(e, MaxEvents)

SpecTypes ==
    InitSeen /\ [][NextTypes]_vars

\* one container id with calls of TriggerHandleStream
NextTrigger ==
    \/ NextOver({"c1"}, {"p1"}, MaxTrigEvents)
    \/ TriggerHandleStream("c1")
    \/ TriggerHandle

SpecTrigger ==
    Init /\ [][NextTrigger]_vars

\* one container id with exit notifiers and calls of TriggerHandleStream, no
\* event from the shim
NextTriggerExit ==
    \/ \E t \in Threads : Create(t, "c1")
    \/ \E t \in Threads : StartAttach(t)
    \/ \E t \in Threads : StartRpcReturn(t)
    \/ \E t \in Threads : StartNotifyReturn(t)
    \/ AddProcess("c1", "p1")
    \/ TriggerHandleStream("c1")
    \/ TriggerHandle
    \/ \E k \in Keys : QRun(k)
    \/ \E k \in Keys : QDone(k)
    \/ getOrCreateExitNotifier("c1")

SpecTriggerExit ==
    Init /\ [][NextTriggerExit]_vars

\* the Supervisor: callers, the task loop and the workers
NextSupervisor ==
    \/ \E k \in TaskKinds, id \in Ids : Submit(k, id)
    \/ start
    \/ stats
    \/ addProcess
    \/ addProcessReturn
    \/ \E n \in 1..MaxTasks : StartWorker(n)
    \/ \E n \in 1..MaxTasks : StatsWorker(n)
    \/ \E n \in 1..MaxTasks : StatsSend(n)

\* the same steps with the results of the handlers recorded
SpecHandlers ==
    InitSeen /\ [][NextSupervisor]_vars

\* the task loop and the workers are scheduled, and the runtime answers
SpecSupervisor ==
    /\ Init /\ [][NextSupervisor]_vars
    /\ WF_vars(start) /\ WF_vars(stats) /\ WF_vars(addProcess)
    /\ WF_vars(addProcessReturn)
    /\ \A n \in 1..MaxTasks : WF_vars(StartWorker(n)) /\ WF_vars(StatsWorker(n))
    /\ \A n \in 1..MaxTasks : WF_vars(StatsSend(n))

\* Create and start with the wrapped stdin of each container
NextStdin ==
    \/ \E t \in Threads, id \in Ids : id \in CallIds(t) /\ Create(t, id)
    \/ \E t \in Threads : StartAttach(t)
    \/ \E t \in Threads : StartRpcReturn(t)
    \/ \E t \in Threads : StartNotifyReturn(t)
    \/ \E o \in Objs : StdinClose(o)
    \/ \E o \in Objs : StdinWait(o)
    \/ \E o \in Objs : StdinSend(o)

\* the goroutine started by the Close is scheduled
SpecStdin ==
    /\ Init /\ [][NextStdin]_vars
    /\ \A o \in Objs : WF_vars(StdinWait(o)) /\ WF_vars(StdinSend(o))

\* the client with a caller of Signal: c1 is created, c2 never is
NextSignal ==
    \/ NextOver({"c1"}, {"p1"}, MaxSigEvents)
    \/ \E id \in Ids, sig \in Sigs : Signal(id, sig)
    \/ SignalReturn

SpecSignal ==
    Init /\ [][NextSignal]_vars

\* the operations that take a per-id lock: the Create of c1, Signal on either
\* id and the handling of the events of c1
NextLock ==
    \/ Create("t1", "c1")
    \/ StartAttach("t1")
    \/ StartRpcReturn("t1")
    \/ StartNotifyReturn("t1")
    \/ \E e \in Events :
           e.Pid = InitFriendlyName /\ e.Status = 0 /\ EvRecv(e, MaxSigEvents)
    \/ EvHandle
    \/ \E id \in Ids, sig \in Sigs : Signal(id, sig)
    \/ SignalReturn

\* the caller makes its call, the shim answers every RPC, the backend returns
\* from every callback, and the event loop goes on
SpecLock ==
    /\ Init /\ [][NextLock]_vars
    /\ WF_vars(Create("t1", "c1"))
    /\ WF_vars(StartAttach("t1"))
    /\ WF_vars(StartRpcReturn("t1"))
    /\ WF_vars(StartNotifyReturn("t1"))
    /\ WF_vars(EvHandle)
    /\ WF_vars(\E id \in Ids, sig \in Sigs : Signal(id, sig))
    /\ WF_vars(SignalReturn)

\* one container id, two additional processes
NextProcs ==
    NextOver({"c1"}, Procs, MaxEvents)

SpecProcs ==
    Init /\ [][NextProcs]_vars

\* ====================================================== properties
\* C1: a Create(id) called while id is in the table returns the already-active
\* error, and the table, the container objects with their process registries,
\* the directories and the pending notifications are as before the call; no
\* clean-up and no deletion from the table runs for the rejected call.
C1_ActiveCreateRejected ==
    [][\A t \in Threads :
          LET id == IF ret' # NoRet THEN ret'.id ELSE arg'[t] IN
          (pc[t] = "idle" /\ pc'[t] # "idle" /\ containers[id] # NoObj)
          => /\ ret'.err = ErrActive
             /\ ret'.id = id
             /\ cleanRes' = "none"
             /\ UNCHANGED <<containers, ctrs, dirs, shimAck, q>>]_vars

\* a Create was rejected for a live container that has a registered process
C1_Rejected ==
    /\ ret # NoRet
    /\ ret.err = ErrActive
    /\ containers[ret.id] # NoObj
    /\ ctrs[containers[ret.id]].processes # {}
    /\ dirs[ret.id]

\* C2 as stated: whenever Create(id) returns a non-nil error after the
\* already-active check, id is absent from the table and its bundle directory
\* has been removed.
C2_FailedCreateRemovesDir ==
    (ret # NoRet /\ ret.err \notin {Nil, ErrActive})
    => /\ containers[ret.id] = NoObj
       /\ ~dirs[ret.id]

\* C2 amended: whenever Create(id) returns a non-nil error after the
\* already-active check, id is absent from the table and its lock is free, so
\* a later Create(id) is not rejected as already active; the error is the one
\* of the step that failed, never the one of the clean-up; and the bundle
\* directory is gone when the deferred clean-up ran with NOCLEAN unset and its
\* clean() returned nil.
C2_FailedCreateRollsBack ==
    (ret # NoRet /\ ret.err \notin {Nil, ErrActive})
    => /\ containers[ret.id] = NoObj
       /\ ~IsActive(ret.id)
       /\ locker[ret.id] = NoHolder
       /\ ret.err \in (CASE ret.at = "idle" ->
                               {"getRootIDs", "prepareBundleDir", "clean",
                                "MkdirAllAs", "os.Create", "Encode", "openFifos"}
                         [] ret.at = "attach" -> {"attachStdio"}
                         [] ret.at = "rpc" -> {"CreateContainer"}
                         [] ret.at = "notify" -> {"StateChanged"}
                         [] OTHER -> {})
       /\ (~noclean /\ cleanRes = "nil") => ~dirs[ret.id]

\* the create RPC failed after the container was registered, and the
\* registration and the directory are gone
C2_RolledBack ==
    /\ ret # NoRet
    /\ ret.err = "CreateContainer"
    /\ ret.obj # NoObj
    /\ containers[ret.id] = NoObj
    /\ ~noclean
    /\ cleanRes = "nil"
    /\ ~dirs[ret.id]

\* C3 as stated: whenever Create(id) returns nil, the shim's create call for
\* id has succeeded, id is in the table and its init pid is the one the shim
\* returned.
C3_NilMeansCreated ==
    (ret # NoRet /\ ret.err = Nil)
    => /\ ret.obj # NoObj
       /\ shimAck[ret.obj] # 0
       /\ containers[ret.id] = ret.obj
       /\ ctrs[ret.obj].systemPid = shimAck[ret.obj]

\* C4 as stated: once the shim's create call for id has succeeded, id is in
\* the table with its init pid recorded when Create returns.
C4_CreatedStaysRegistered ==
    (ret # NoRet /\ ret.obj # NoObj /\ shimAck[ret.obj] # 0)
    => /\ containers[ret.id] = ret.obj
       /\ ctrs[ret.obj].systemPid = shimAck[ret.obj]

\* C4 amended: once the shim's create call for id has succeeded, the init pid
\* the shim returned is recorded in the container object, and Create returns
\* either nil with id in the table, or the error of the start notification
\* with the registration rolled back.
C4_CreatedRegisteredUnlessNotifyFails ==
    (ret # NoRet /\ ret.obj # NoObj /\ shimAck[ret.obj] # 0)
    => /\ ctrs[ret.obj].systemPid = shimAck[ret.obj]
       /\ ret.err \in {Nil, "StateChanged"}
       /\ ret.err = Nil => containers[ret.id] = ret.obj
       /\ ret.err = "StateChanged" => containers[ret.id] = NoObj

\* the shim created the container, the start notification failed and Create
\* returned its error
C4_NotifyFailed ==
    /\ ret # NoRet
    /\ ret.obj # NoObj
    /\ shimAck[ret.obj] # 0
    /\ ret.err = "StateChanged"
    /\ containers[ret.id] = NoObj

\* C5 as stated: handling the Exit event of the init process of a live
\* container id removes id from the table, leaves no bundle directory of id,
\* and queues one Exit notification with the event's exit status.
C5_InitExitRemovesDir ==
    [][(/\ evPc = "handle" /\ evPc' = "recv"
        /\ evCur.Type = StateExit /\ evCur.Pid = InitFriendlyName
        /\ containers[evCur.Id] = evObj)
       => /\ containers'[evCur.Id] = NoObj
          /\ ~dirs'[evCur.Id]
          /\ Len(q'[evCur.Id]) = Len(q[evCur.Id]) + 1]_vars

\* C5 amended: handling the Exit event of the init process of a live
\* container id removes id, and only id, from the table; runs clean() on its
\* bundle directory, which is gone when NOCLEAN is unset and clean() returned
\* nil; and queues under id exactly one notification, of state Exit with the
\* event's exit status. No queued notification is handed to the backend twice.
C5_InitExitHandled ==
    /\ [][(/\ evPc = "handle" /\ evPc' = "recv"
           /\ evCur.Type = StateExit /\ evCur.Pid = InitFriendlyName
           /\ containers[evCur.Id] = evObj)
          => /\ containers' = [containers EXCEPT ![evCur.Id] = NoObj]
             /\ cleanRes' # "none"
             /\ (~noclean /\ cleanRes' = "nil") => ~dirs'[evCur.Id]
             /\ \A i \in Ids \ {evCur.Id} : dirs'[i] = dirs[i]
             /\ \A k \in Keys \ {evCur.Id} : q'[k] = q[k]
             /\ Len(q'[evCur.Id]) = Len(q[evCur.Id]) + 1
             /\ SubSeq(q'[evCur.Id], 1, Len(q[evCur.Id])) = q[evCur.Id]
             /\ LET c == q'[evCur.Id][Len(q'[evCur.Id])] IN
                  /\ c.Id = evCur.Id
                  /\ c.Seq = evCur.Seq
                  /\ c.State = StateExit
                  /\ c.ExitCode = evCur.Status]_vars
    /\ [][(note' # NoNote /\ note'.Seq > 0)
          => /\ note'.Seq > lastSeq[note'.Id]
             /\ \E k \in Keys :
                  /\ ~qRunning[k] /\ qRunning'[k]
                  /\ note' = Notification(Head(q[k]))]_vars

\* the init Exit of a live container was handled in the last step: the entry
\* and the directory are gone, the notification with status 1 is queued
C5_ExitQueued ==
    /\ cleanRes = "nil"
    /\ ~noclean
    /\ evPc = "recv"
    /\ containers["c1"] = NoObj
    /\ ~dirs["c1"]
    /\ q["c1"] # <<>>
    /\ q["c1"][Len(q["c1"])].State = StateExit
    /\ q["c1"][Len(q["c1"])].ExitCode = 1

\* C6: handling the Exit event of a process other than init, of a live
\* container id, removes that process id from the container's registry and
\* nothing else (nothing when it is not registered), leaves the table, the
\* directories and every other container object as they were, and queues under
\* id one notification of state ExitProcess with that process id.
C6_ProcessExitHandled ==
    [][(/\ evPc = "handle" /\ evPc' = "recv"
        /\ evCur.Type = StateExit /\ evCur.Pid # InitFriendlyName
        /\ containers[evCur.Id] = evObj)
       => /\ ctrs' = [ctrs EXCEPT ![evObj].processes = @ \ {evCur.Pid}]
          /\ UNCHANGED <<containers, dirs>>
          /\ cleanRes' = "none"
          /\ \A k \in Keys \ {evCur.Id} : q'[k] = q[k]
          /\ Len(q'[evCur.Id]) = Len(q[evCur.Id]) + 1
          /\ SubSeq(q'[evCur.Id], 1, Len(q[evCur.Id])) = q[evCur.Id]
          /\ LET c == q'[evCur.Id][Len(q'[evCur.Id])] IN
               /\ c.Id = evCur.Id
               /\ c.State = StateExitProcess
               /\ c.ProcessID = evCur.Pid]_vars

\* the exit of p1 was handled for a live container whose registry still holds
\* p2
C6_OtherProcessKept ==
    /\ containers["c1"] # NoObj
    /\ ctrs[containers["c1"]].processes = {"p2"}
    /\ q["c1"] # <<>>
    /\ q["c1"][Len(q["c1"])].State = StateExitProcess
    /\ q["c1"][Len(q["c1"])].ProcessID = "p1"
    /\ q["c1"][Len(q["c1"])].Obj = containers["c1"]

\* C7: the notification queued for the init Exit of a container carries
\* OOMKilled exactly when an OOM event was handled for that container before,
\* whatever was handled in between: the flag changes only by the handling of
\* an OOM event, which sets it. Once the init Exit of a container was handled
\* its entry is gone for good, and an event received later is applied only to
\* the container found in the table, so never to that one.
C7_OomKilledIffOomHandled ==
    /\ [][(/\ evPc = "handle" /\ evPc' = "recv"
           /\ evCur.Type = StateExit /\ evCur.Pid = InitFriendlyName)
          => LET c == q'[evCur.Id][Len(q'[evCur.Id])] IN
               /\ c.State = StateExit
               /\ c.Obj = evObj
               /\ c.OOMKilled = (evObj \in oomHandled)]_vars
    /\ [][\A o \in 1..Len(ctrs) :
            ctrs'[o].oom # ctrs[o].oom
            => /\ evPc = "handle" /\ evObj = o /\ evCur.Type = StateOOM
               /\ ctrs'[o].oom]_vars
    /\ [][(evPc = "recv" /\ evPc' = "handle")
          => /\ evObj' # NoObj
             /\ evObj' = containers[evCur'.Id]
             /\ evObj' \notin exited]_vars
    /\ [](\A o \in exited : \A i \in Ids : containers[i] # o)

\* an OOM, a pause and the init Exit were handled in this order, and the Exit
\* notification carries OOMKilled
C7_OomThenPauseThenExit ==
    /\ Len(q["c1"]) = 3
    /\ q["c1"][1].State = StateOOM
    /\ q["c1"][2].State = StatePause
    /\ q["c1"][3].State = StateExit
    /\ q["c1"][1].Obj = q["c1"][3].Obj
    /\ q["c1"][3].OOMKilled

\* C8 as stated: a notification of state ExitProcess, Pause, Resume or OOM
\* never carries OOMKilled.
C8_OomKilledOnlyOnExit ==
    \A k \in Keys : \A i \in 1..Len(q[k]) :
        q[k][i].State # StateExit => ~q[k][i].OOMKilled

C10_ExitBeforeStart ==
    (note # NoNote /\ note.State = StateStart)
    => \A k \in Keys : \A i \in 1..Len(q[k]) :
         ~(/\ q[k][i].Id = note.Id
           /\ q[k][i].State = StateExit
           /\ q[k][i].Obj # note.Obj
           /\ ctrs[q[k][i].Obj].systemPid # 0
           /\ (i > 1 \/ ~qRunning[k]))

\* C11: however often and however concurrently close() is called on a
\* notifier, close(en.c) is executed at most once, and exactly once as soon as
\* a call has entered once.Do; a call made after that changes neither the
\* notifiers nor the registry; a waiter is unblocked only by a closed channel,
\* so it stays blocked while close() was never called; and every waiter
\* blocked on a closed channel is eventually unblocked.
C11_ClosedExactlyOnce ==
    /\ [](\A n \in 1..Len(ens) :
            /\ ens[n].closes <= 1
            /\ (ens[n].once = "new") = (ens[n].closes = 0))
    /\ [](\A w \in Waiters :
            waiterPc[w] = "unblocked" => ens[waiterEn[w]].closes = 1)
    /\ [][nCloseCalls' # nCloseCalls
          => \/ UNCHANGED <<ens, exitNotifiers>>
             \/ \E n \in 1..Len(ens) :
                  /\ ens[n].closes = 0
                  /\ ens' = [ens EXCEPT ![n].once = "running", ![n].closes = 1]
                  /\ UNCHANGED exitNotifiers]_vars
    /\ \A w \in Waiters :
         (waiterPc[w] = "blocked" /\ ens[waiterEn[w]].closes > 0)
         ~> (waiterPc[w] = "unblocked")

\* close() was called three times, twice on the same notifier; that notifier
\* was closed once and both its waiters are unblocked
C11_ThreeCalls ==
    /\ nCloseCalls = 3
    /\ Len(ens) = 2
    /\ ens[1].closes = 1
    /\ ens[1].once = "done"
    /\ ens[2].closes = 1
    /\ \A w \in Waiters : waiterPc[w] = "unblocked" /\ waiterEn[w] = 1

\* C12 as stated: the channel of an exit notifier is closed only at the end
\* of the closure of an init Exit event of the notifier's id, after its
\* StateChanged call; closures of other events, the one of a non-init Exit
\* among them, never close it.
C12_ClosedOnlyByInitExit ==
    [][\A n \in 1..Len(ens) :
          ens'[n].closes > ens[n].closes
          => \E k \in Keys :
               /\ qRunning[k] /\ ~qRunning'[k]
               /\ Head(q[k]).Id = ens[n].id
               /\ Head(q[k]).State = StateExit]_vars

\* C13: once the init Exit of a container was handled, its entry is not in
\* the table any more; an event taken in hand later, by the event loop or by
\* TriggerHandleStream, is applied only to a container found in the table at
\* that moment, so never to the exited one; TriggerHandleStream on an id
\* without entry returns the lookup error and changes neither the table, the
\* containers, the directories, the queue nor the exit notifiers; and a
\* notification is queued only by the handling of an event whose container was
\* found.
C13_LaterEventFindsNoEntry ==
    /\ [](\A o \in exited : \A i \in Ids : containers[i] # o)
    /\ [][(nTriggers' # nTriggers /\ trigPc' = "idle")
          => /\ containers[trigRes'.id] = NoObj
             /\ trigRes'.err = ErrNotFound
             /\ UNCHANGED <<containers, ctrs, dirs, locker, q, qRunning,
                            exitNotifiers, ens, exited, oomHandled>>]_vars
    /\ [][(trigPc = "idle" /\ trigPc' = "handle")
          => /\ trigObj' # NoObj
             /\ trigObj' = containers[trigCur'.Id]
             /\ trigObj' \notin exited]_vars
    /\ [][(evPc = "recv" /\ evPc' = "handle")
          => /\ evObj' # NoObj
             /\ evObj' = containers[evCur'.Id]
             /\ evObj' \notin exited]_vars
    /\ [][(\E k \in Keys : q'[k] # q[k] /\ Len(q'[k]) >= Len(q[k]))
          => \/ evPc = "handle" /\ evPc' = "recv"
             \/ trigPc = "handle" /\ trigPc' = "idle"]_vars

\* the container of c1 was started, the one event taken in hand was its init
\* Exit, and a later TriggerHandleStream("c1") returned the lookup error
C13_TriggerAfterExit ==
    /\ trigRes.err = ErrNotFound
    /\ trigRes.after = 1
    /\ nEvents = 1
    /\ exited = {1}
    /\ ctrs[1].systemPid # 0
    /\ containers["c1"] = NoObj

\* C14: while the stdio callback of a Create runs, the FIFOs of its container
\* are open and the shim has not been asked to create it; the create request
\* goes to the shim only in the step in which the callback returned without
\* error; a Create that returns the callback's error returns it from the
\* callback, with the FIFOs closed and the shim never asked; and the container
\* object of a failed Create is never taken up again by any call.
C14_StdioBeforeCreateRpc ==
    /\ [](\A t \in Threads :
            pc[t] = "attach" => cur[t] \in fifos /\ shimAck[cur[t]] = 0)
    /\ [][\A t \in Threads :
            (pc'[t] = "rpc" /\ pc[t] # "rpc")
            => pc[t] = "attach" /\ cur'[t] = cur[t] /\ cur[t] \in fifos']_vars
    /\ [](ret.err = "attachStdio"
            => /\ ret.at = "attach"
               /\ ret.obj # NoObj
               /\ ret.obj \notin fifos
               /\ shimAck[ret.obj] = 0
               /\ \A t \in Threads : cur[t] # ret.obj)
    /\ [][\A t \in Threads :
            (cur'[t] # cur[t] /\ cur'[t] # NoObj)
            => cur'[t] = Len(ctrs) + 1 /\ pc'[t] = "attach"]_vars
    /\ [][\A o \in 1..Len(shimAck) :
            shimAck'[o] # shimAck[o]
            => \E t \in Threads : cur[t] = o /\ pc[t] = "rpc"]_vars

\* a Create of c1 has returned the error of the stdio callback
C14_CallbackFailed ==
    /\ ret.err = "attachStdio"
    /\ ret.id = "c1"
    /\ ret.obj \notin fifos
    /\ shimAck[ret.obj] = 0

\* C16: every call of Signal sends exactly one request to the shim, addressed
\* to the id passed and to the init process, with the signal as uint32; what
\* Signal returns is what the shim answered; and neither the step that sends
\* nor the step that returns changes the table of live containers, a
\* container's processes, pid or OOM flag, the directories, the notification
\* queue or the exit notifiers, whether the id is in the table or not.
C16_SignalForwardsOnly ==
    /\ [](sigSent = nSignals)
    /\ [][sigSent' # sigSent
          => /\ sigSent' = sigSent + 1
             /\ sigPc = "idle" /\ sigPc' = "rpc"
             /\ sigReq' = [Id |-> sigArg'.id, Pid |-> InitFriendlyName,
                           Signal |-> Uint32(sigArg'.sig)]]_vars
    /\ [][(sigPc = "rpc" /\ sigPc' = "idle")
          => /\ sigRes'.shim \in {Nil, "shim error"}
             /\ sigRes'.err = sigRes'.shim
             /\ locker[sigArg.id] = Signaller
             /\ locker'[sigArg.id] = NoHolder]_vars
    /\ [][sigPc' # sigPc
          => UNCHANGED <<containers, ctrs, dirs, shimAck, fifos, q, qRunning,
                         exitNotifiers, ens, oomHandled, exited>>]_vars

\* Signal("c1", -1) has returned the error the shim answered, and c1 is a
\* started container in the table
C16_LiveSignalled ==
    /\ sigPc = "idle"
    /\ sigRes.err = "shim error"
    /\ sigReq.Id = "c1"
    /\ sigReq.Signal = [hi |-> 65535, lo |-> 65535]
    /\ containers["c1"] # NoObj
    /\ ctrs[containers["c1"]].systemPid # 0

\* C17: a Create or Signal that is inside its call holds the lock of its own
\* id and of no other id; and whether a Create, a Signal or the handling of an
\* event can take its next step depends only on its own position and, where
\* it has to take a lock, on the lock of its own id: it can go on while calls
\* on other ids are waiting inside a shim RPC, and it waits while a call on
\* the same id is.
C17_OtherIdsNotBlocked ==
    /\ \A t \in Threads, i \in Ids :
          locker[i] = t <=> (pc[t] \in {"attach", "rpc", "notify"} /\ arg[t] = i)
    /\ \A i \in Ids :
          locker[i] = Signaller <=> (sigPc = "rpc" /\ sigArg.id = i)
    /\ \A t \in Threads : \A i \in CallIds(t) :
          (ENABLED Create(t, i)) <=> (pc[t] = "idle" /\ locker[i] = NoHolder)
    /\ \A i \in Ids, sig \in Sigs :
          (ENABLED Signal(i, sig))
              <=> (sigPc = "idle" /\ nSignals < MaxSignals /\ locker[i] = NoHolder)
    /\ (ENABLED EvHandle) <=> (evPc = "handle" /\ locker[evCur.Id] = NoHolder)
    /\ (ENABLED SignalReturn) <=> sigPc = "rpc"
    /\ \A t \in Threads :
          /\ (ENABLED StartAttach(t)) <=> pc[t] = "attach"
          /\ (ENABLED StartRpcReturn(t)) <=> pc[t] = "rpc"
          /\ (ENABLED StartNotifyReturn(t)) <=> pc[t] = "notify"

\* a Create of c1 and a Signal of c2 are inside their shim RPCs at the same
\* time, each holding the lock of its own id
C17_BothInsideRpc ==
    /\ \E t \in Threads : pc[t] = "rpc" /\ arg[t] = "c1" /\ locker["c1"] = t
    /\ sigPc = "rpc"
    /\ sigArg.id = "c2"
    /\ locker["c2"] = Signaller

\* C15: the shim is told that stdin is closed only for a container whose
\* create request it has acknowledged; a goroutine started by an earlier Close
\* waits until the acknowledgement or the return of start and sends only in
\* the first case; one that finds start returned without acknowledgement
\* ends without sending, for good; and once the acknowledgement is there a
\* waiting goroutine does send.
C15_StdinCloseAfterAck ==
    /\ [](\A o \in Objs : stdinPc[o] = "sent" => shimAck[o] # 0)
    /\ [][\A o \in Objs :
            (stdinPc[o] = "wait" /\ stdinPc'[o] # "wait")
            => shimAck[o] # 0 \/ (\A t \in Threads : cur[t] # o)]_vars
    /\ [][\A o \in Objs :
            (stdinPc[o] # "sent" /\ stdinPc'[o] = "sent")
            => stdinPc[o] = "check" /\ shimAck[o] # 0]_vars
    /\ [](\A o \in Objs :
            stdinPc[o] = "abandoned"
            => shimAck[o] = 0 /\ (\A t \in Threads : cur[t] # o))
    /\ [][\A o \in Objs :
            stdinPc[o] \in {"sent", "abandoned"} => stdinPc'[o] = stdinPc[o]]_vars
    /\ \A o \in Objs :
          (stdinPc[o] = "wait" /\ o <= Len(shimAck) /\ shimAck[o] # 0)
              ~> (stdinPc[o] = "sent")

\* the wrapped stdin of the first container was closed while its create
\* request is with the shim: the goroutine waits
C15_ClosedBeforeAck ==
    /\ stdinPc[1] = "wait"
    /\ \E t \in Threads : cur[t] = 1 /\ pc[t] = "rpc"
    /\ shimAck[1] = 0

C19_LoopNeverBlocked ==
    /\ loopPc = "idle"
    /\ sTasks # <<>> => ENABLED (start \/ stats \/ addProcess)

\* C20: no error channel ever holds more than one value; a value is sent by
\* the task loop only for the task it is handling, when the handler's result
\* is final, and by a worker only for a task whose handler returned the
\* deferred marker; a task that is neither waiting, nor being handled, nor
\* with a worker has its one value; and every task submitted gets its value.
C20_OneValuePerTask ==
    /\ [](\A n \in 1..Len(tasks) :
            /\ Len(errCh[n]) <= 1
            /\ (n \in startTasks \cup statsRunning) => errCh[n] = <<>>
            /\ (/\ n \notin startTasks \cup statsRunning
                /\ n # loopTask
                /\ \A i \in 1..Len(sTasks) : sTasks[i] # n) => Len(errCh[n]) = 1)
    /\ [][\A n \in 1..Len(tasks) :
            errCh'[n] # errCh[n]
            => /\ errCh[n] = <<>>
               /\ Len(errCh'[n]) = 1
               /\ errCh'[n][1].val # errDeferredResponse
               /\ errCh'[n][1].by = "loop"
                    <=> (n = loopTask \/ (loopPc = "idle" /\ sTasks # <<>>
                                          /\ n = Head(sTasks)))
               /\ errCh'[n][1].by = "worker"
                    <=> (n \in startTasks \cup statsRunning)]_vars
    /\ \A n \in 1..MaxTasks :
          (n <= Len(tasks)) ~> (n <= Len(tasks) /\ Len(errCh[n]) = 1)

\* three tasks have their value: the Start of c1 from a worker, a Stats of
\* c2 (not in the table) from the task loop, an AddProcess of c1 from the
\* task loop after container.Exec
C20_AllDelivered ==
    /\ Len(tasks) = 3
    /\ tasks[1] = [kind |-> StartTask, id |-> "c1"]
    /\ tasks[2] = [kind |-> StatsTask, id |-> "c2"]
    /\ tasks[3] = [kind |-> AddProcessTask, id |-> "c1"]
    /\ errCh[1] = <<[val |-> Nil, by |-> "worker"]>>
    /\ errCh[2] = <<[val |-> ErrContainerNotFound, by |-> "loop"]>>
    /\ errCh[3] = <<[val |-> Nil, by |-> "loop"]>>

\* C21: when the task loop takes a Stats or AddProcess task whose id is not
\* in s.containers, that step puts ErrContainerNotFound on the task's error
\* channel, sent by the loop, and changes nothing else: the loop is not inside
\* a runtime call afterwards, no goroutine is started, the table, the stats
\* sent, the start responses sent and the subscribers notified are unchanged;
\* and such a task never gets a stat, a start response or an event later.
C21_NotFoundHasNoEffect ==
    /\ [][(/\ sTasks # <<>>
           /\ sTasks' = Tail(sTasks)
           /\ tasks[Head(sTasks)].kind \in {StatsTask, AddProcessTask}
           /\ sContainers[tasks[Head(sTasks)].id] = NoObj)
          => /\ errCh'[Head(sTasks)]
                  = <<[val |-> ErrContainerNotFound, by |-> "loop"]>>
             /\ loopPc' = "idle"
             /\ UNCHANGED <<sContainers, sMade, startTasks, statsRunning,
                            statSending, statCh, startResponse, subscribed>>]_vars
    /\ [](\A n \in 1..Len(tasks) :
            (errCh[n] # <<>> /\ errCh[n][1].val = ErrContainerNotFound)
            => /\ statCh[n] = 0
               /\ startResponse[n] = 0
               /\ n \notin subscribed \cup statsRunning \cup statSending
               /\ n # loopTask)

\* a Stats task of c1 and an AddProcess task of c2 were handled while the
\* table was empty
C21_BothNotFound ==
    /\ Len(tasks) >= 2
    /\ tasks[1] = [kind |-> StatsTask, id |-> "c1"]
    /\ tasks[2] = [kind |-> AddProcessTask, id |-> "c2"]
    /\ errCh[1] = <<[val |-> ErrContainerNotFound, by |-> "loop"]>>
    /\ errCh[2] = <<[val |-> ErrContainerNotFound, by |-> "loop"]>>
    /\ sMade = 0

\* C22: when the task loop takes a Stats or AddProcess task and finds its id
\* in s.containers, a Start task of that id has got nil from its worker: no
\* task sees the entry of a start that is pending or has failed.
C22_EntryOnlyAfterStart ==
    [][(/\ loopPc = "idle"
        /\ sTasks # <<>>
        /\ sTasks' = Tail(sTasks)
        /\ tasks[Head(sTasks)].kind \in {StatsTask, AddProcessTask}
        /\ sContainers[tasks[Head(sTasks)].id] # NoObj)
       => \E m \in 1..Len(tasks) :
             /\ tasks[m] = [kind |-> StartTask, id |-> tasks[Head(sTasks)].id]
             /\ errCh[m] = <<[val |-> Nil, by |-> "worker"]>>]_vars

\* C30: the step in which the task loop takes a Stats task whose id is in
\* s.containers starts the goroutine and sends nothing, the loop staying
\* outside the runtime; a stat is sent on t.Stat only after the goroutine has
\* sent nil on the error channel, and at most once; after an error of the
\* runtime no stat is sent; and the goroutine ends with an error sent or with
\* nil and one stat sent.
C30_StatsDeferredThenOneStat ==
    /\ [][(/\ loopPc = "idle"
           /\ sTasks # <<>>
           /\ sTasks' = Tail(sTasks)
           /\ tasks[Head(sTasks)].kind = StatsTask
           /\ sContainers[tasks[Head(sTasks)].id] # NoObj)
          => /\ errCh' = errCh
             /\ statCh' = statCh
             /\ loopPc' = "idle"
             /\ statsRunning' = statsRunning \cup {Head(sTasks)}]_vars
    /\ [](\A n \in 1..Len(tasks) :
            /\ statCh[n] <= 1
            /\ statCh[n] = 1 => errCh[n] = <<[val |-> Nil, by |-> "worker"]>>
            /\ (errCh[n] # <<>> /\ errCh[n][1].val # Nil)
                  => statCh[n] = 0 /\ n \notin statSending
            /\ n \in statSending
                  => statCh[n] = 0 /\ errCh[n] = <<[val |-> Nil, by |-> "worker"]>>)
    /\ [][\A n \in 1..Len(tasks) :
            statCh'[n] # statCh[n]
            => /\ statCh[n] = 0 /\ statCh'[n] = 1
               /\ tasks[n].kind = StatsTask
               /\ errCh[n] = <<[val |-> Nil, by |-> "worker"]>>
               /\ errCh'[n] = errCh[n]]_vars
    /\ \A n \in 1..MaxTasks :
          (n \in statsRunning)
              ~> (/\ n <= Len(tasks)
                  /\ \/ errCh[n] = <<[val |-> RuntimeError, by |-> "worker"]>>
                     \/ /\ errCh[n] = <<[val |-> Nil, by |-> "worker"]>>
                        /\ statCh[n] = 1)

\* the Stats task of the started container c1 has got nil and its stat
C30_StatDelivered ==
    /\ Len(tasks) >= 2
    /\ tasks[1] = [kind |-> StartTask, id |-> "c1"]
    /\ tasks[2] = [kind |-> StatsTask, id |-> "c1"]
    /\ errCh[1] = <<[val |-> Nil, by |-> "worker"]>>
    /\ errCh[2] = <<[val |-> Nil, by |-> "worker"]>>
    /\ statCh[2] = 1


\* C23: the event path neither propagates an error nor stalls. handleEvent
\* returns nil for every event. A queued closure that is due can always be
\* run, and an event received can always be handled once the lock of its id is
\* free. Whatever StateChanged returned, the closure ends by leaving the
\* queue, the pause monitor has been given the type of a Pause or Resume
\* event, and the exit notifier registered for the id of an exit event has
\* been closed and unregistered.
C23_EventPathGoesOn ==
    /\ [](obs.kind = "handleEvent" => obs.err = Nil)
    /\ [](\A k \in Keys : q[k] # <<>> /\ ~qRunning[k] => ENABLED QRun(k))
    /\ []((evPc = "handle" /\ locker[ctrs[evObj].containerID] = NoHolder)
            => ENABLED EvHandle)
    /\ [][\A k \in Keys :
            qRunning[k] /\ ~qRunning'[k] =>
                LET c == Head(q[k])
                    n == exitNotifiers[c.Id]
                IN /\ q'[k] = Tail(q[k])
                   /\ obs'.kind = "closure"
                   /\ c.Type \in {StatePause, StateResume} => obs'.pause = c.Type
                   /\ (c.Type = StateExit /\ n # NoObj) =>
                          /\ ens'[n].once = "done"
                          /\ exitNotifiers'[c.Id] = NoObj]_vars

\* StateChanged has returned an error for an exit event, and the closure has
\* closed the exit notifier of the id all the same
C23_ErrorLoggedNotifierClosed ==
    /\ obs.kind = "closure"
    /\ obs.err = "StateChanged"
    /\ \E n \in DOMAIN ens : ens[n].once = "done" /\ ens[n].closes = 1


\* C24: an event whose StateChanged fails leaves the container as it was
\* before the event was handled. What StateChanged returns is known only when
\* the closure runs, after handleEvent has returned, so that the property
\* takes two things: handleEvent, when it queues the closure, has changed
\* neither the table entry of the id, nor the process registry of the
\* container, nor its bundle directory; and the closure whose StateChanged
\* failed changes none of them either.
C24_FailedEventChangesNothing ==
    /\ [][(evPc = "handle" /\ evPc' = "recv") =>
            /\ containers'[evCur.Id] = containers[evCur.Id]
            /\ ctrs'[evObj].processes = ctrs[evObj].processes
            /\ dirs'[evCur.Id] = dirs[evCur.Id]]_vars
    /\ [][obs'.kind = "closure" /\ obs'.err # Nil =>
            /\ containers' = containers
            /\ \A o \in DOMAIN ctrs : ctrs'[o].processes = ctrs[o].processes
            /\ dirs' = dirs]_vars


\* C25: no deadlock on the per-id locks. A Create that returns, on whatever
\* path, and a Signal that returns hold no lock afterwards, and the handling
\* of an event leaves every lock as it found it; no caller holds the locks of
\* two ids at a time; every lock that is held is released again, an event
\* waiting for the lock of its id gets handled, and every caller of Create and
\* of Signal gets through its call.
C25_NoLockDeadlock ==
    /\ [][\A t \in Threads :
            (pc[t] # "done" /\ pc'[t] = "done") => \A i \in Ids : locker'[i] # t]_vars
    /\ [][(sigPc = "rpc" /\ sigPc' = "idle")
            => \A i \in Ids : locker'[i] # Signaller]_vars
    /\ [][(evPc = "handle" /\ evPc' = "recv") => locker' = locker]_vars
    /\ [](\A h \in Threads \cup {Signaller} :
            Cardinality({i \in Ids : locker[i] = h}) <= 1)
    /\ \A i \in Ids : (locker[i] # NoHolder) ~> (locker[i] = NoHolder)
    /\ (evPc = "handle") ~> (evPc = "recv")
    /\ <>(pc["t1"] = "done" /\ nSignals = MaxSignals /\ sigPc = "idle")

\* an event of c1 waits for the lock while the Create of c1 holds it inside
\* the shim RPC and a Signal holds the lock of c2
C25_EventWaitsBehindCreate ==
    /\ evPc = "handle"
    /\ evCur.Id = "c1"
    /\ \E t \in Threads : locker["c1"] = t /\ pc[t] = "rpc"
    /\ locker["c2"] = Signaller


\* C26: the table entry of an id, and the process registry and the OOM flag
\* of a container of that id, are written only under the lock of the id: a
\* step that changes one of them is a step of the caller that holds the lock,
\* or it finds the lock free and takes it for the step; a Signal, which holds
\* the lock without writing, never coincides with a write. And at most one
\* Create or Signal is inside its locked section for an id at a time, and an
\* event of the id is handled only when none is.
C26_WritesUnderLock ==
    /\ [][\A i \in Ids :
            LET written ==
                    \/ containers'[i] # containers[i]
                    \/ \E o \in DOMAIN ctrs :
                          /\ ctrs[o].containerID = i
                          /\ \/ ctrs'[o].processes # ctrs[o].processes
                             \/ ctrs'[o].oom # ctrs[o].oom
            IN written =>
                  \/ locker[i] = NoHolder
                  \/ locker[i] \in Threads /\ pc'[locker[i]] # pc[locker[i]]]_vars
    /\ [](\A i \in Ids :
            Cardinality({t \in Threads :
                            pc[t] \in {"attach", "rpc", "notify"} /\ arg[t] = i})
                + (IF sigPc = "rpc" /\ sigArg.id = i THEN 1 ELSE 0) <= 1)
    /\ [][(evPc = "handle" /\ evPc' = "recv") =>
            /\ \A t \in Threads :
                  ~(pc[t] \in {"attach", "rpc", "notify"} /\ arg[t] = evCur.Id)
            /\ ~(sigPc = "rpc" /\ sigArg.id = evCur.Id)]_vars

\* an OOM event has set the flag of the live container of c1, a process has
\* been registered for it, and now a Signal of c1 is inside its locked section
C26_WrittenThenSignalled ==
    /\ containers["c1"] # NoObj
    /\ ctrs[containers["c1"]].oom
    /\ ctrs[containers["c1"]].processes # {}
    /\ sigPc = "rpc"
    /\ sigArg.id = "c1"


\* C27 as stated: an init Exit handled on a container object that is no longer
\* the one registered for its id (TriggerHandleStream looked it up while its
\* Create was inside start; that Create failed; a new Create of the id has
\* succeeded since) leaves the table entry of the new incarnation and its
\* bundle directory as they are.
C27_StaleExitSparesNewIncarnation ==
    [][(/\ trigPc = "handle"
        /\ trigPc' = "idle"
        /\ trigCur.Type = StateExit
        /\ shimAck[trigObj] = 0
        /\ containers[trigCur.Id] \notin {NoObj, trigObj}
        /\ shimAck[containers[trigCur.Id]] # 0
        /\ \A t \in Threads : cur[t] # containers[trigCur.Id])
       => /\ containers'[trigCur.Id] = containers[trigCur.Id]
          /\ dirs'[trigCur.Id] = dirs[trigCur.Id]]_vars


\* C28: however often Close is called on the wrapped stdin of a container,
\* the FIFO under it is closed exactly once, by the first call and within
\* that call; at most one 'stdin closed' notification is sent for the
\* container; and a call after the first returns nil and changes nothing but
\* the count of calls.
C28_StdinClosedOnce ==
    /\ [](\A o \in Objs :
            /\ stdinCloses[o] = (IF stdinPc[o] = "open" THEN 0 ELSE 1)
            /\ stdinSent[o] = (IF stdinPc[o] = "sent" THEN 1 ELSE 0))
    /\ [][nStdinCalls' # nStdinCalls =>
            LET o == stdinRet'.obj IN
            IF stdinPc[o] = "open"
            THEN /\ stdinRet'.first
                 /\ stdinCloses'[o] = 1
                 /\ stdinPc'[o] = "wait"
            ELSE /\ ~stdinRet'.first
                 /\ stdinRet'.err = Nil
                 /\ UNCHANGED <<stdinPc, stdinCloses, stdinSent, coreVars>>]_vars

\* Close has been called a second time on the wrapped stdin of the first
\* container, after the notification was sent, and has returned nil
C28_SecondCall ==
    /\ nStdinCalls = 2
    /\ stdinRet.err = Nil
    /\ stdinRet.obj = 1
    /\ ~stdinRet.first
    /\ stdinPc[1] = "sent"
    /\ stdinPc[2] = "open"
    /\ stdinCloses[1] = 1
    /\ stdinSent[1] = 1


\* C29: once the wrapped stdin of a container has been closed and the shim has
\* acknowledged its create request, in either order, the shim is eventually
\* told that stdin is closed; the goroutine ends without sending only if the
\* request was never acknowledged, whether the context of start is cancelled
\* or not.
C29_CloseStdinEventuallySent ==
    /\ \A o \in Objs :
          (stdinCloses[o] > 0 /\ o <= Len(shimAck) /\ shimAck[o] # 0)
              ~> (stdinSent[o] = 1)
    /\ [][\A o \in Objs :
            (stdinPc[o] # "abandoned" /\ stdinPc'[o] = "abandoned")
            => o <= Len(shimAck) /\ shimAck[o] = 0]_vars

\* the goroutine of the first container is before its second select: the
\* create request was acknowledged, start has returned and its context is
\* cancelled, and nothing has been sent yet
C29_CancelledAfterAck ==
    /\ stdinPc[1] = "check"
    /\ shimAck[1] # 0
    /\ \A t \in Threads : cur[t] # 1
    /\ stdinSent[1] = 0


\* C31: when addProcess returns for a task on an existing id: if Exec and
\* monitorProcess both succeeded, it has sent one StartResponse with the system
\* pid of the new process, then one start-process event for the id and the
\* process id of the task to the subscribers, and nothing else, and it returns
\* nil; if Exec or monitorProcess failed, it returns that error and has sent
\* neither a StartResponse nor an event.
C31_AddProcessAnswersOnce ==
    [][(loopPc = "Exec" /\ loopPc' = "idle") =>
         LET n == loopTask
             o == sObs'
         IN /\ o.kind = "addProcess"
            /\ o.n = n
            /\ sContainers[tasks[n].id] # NoObj
            /\ IF o.exec = Nil /\ o.mon = Nil
               THEN /\ o.ret = Nil
                    /\ Len(o.out) = 2
                    /\ o.out[1].to = "StartResponse"
                    /\ o.out[1].ExecPid \in SystemPids
                    /\ o.out[2].to = "subscribers"
                    /\ o.out[2].Type = StateStartProcess
                    /\ o.out[2].ID = tasks[n].id
                    /\ o.out[2].PID = TaskPid
                    /\ startResponse'[n] = startResponse[n] + 1
                    /\ subscribed' = subscribed \cup {n}
                    /\ errCh'[n] = Append(errCh[n], [val |-> Nil, by |-> "loop"])
               ELSE /\ o.ret = (IF o.exec # Nil THEN o.exec ELSE o.mon)
                    /\ o.ret # Nil
                    /\ o.out = <<>>
                    /\ UNCHANGED <<startResponse, subscribed>>
                    /\ errCh'[n] = Append(errCh[n], [val |-> o.ret, by |-> "loop"])]_vars

\* Exec has succeeded and monitorProcess has failed for an AddProcess task on
\* an existing container: the task has its error and no StartResponse
C31_MonitorFailed ==
    /\ sObs.kind = "addProcess"
    /\ sObs.exec = Nil
    /\ sObs.mon = RuntimeError
    /\ startResponse[sObs.n] = 0
    /\ sObs.n \notin subscribed
    /\ errCh[sObs.n] = <<[val |-> RuntimeError, by |-> "loop"]>>


\* C32: when start handles a Start task: if runtime.New failed, the task gets
\* that error from the task loop at once, s.containers is as before and no
\* start task goes to the workers; else one start task goes to s.startTasks,
\* with the error channel and the StartResponse channel of the task and the
\* container that was made, start returns the deferred marker and nothing is
\* sent on the error channel by the loop.
C32_StartDefersOrFails ==
    [][(sTasks # <<>> /\ sTasks' = Tail(sTasks) /\ tasks[Head(sTasks)].kind = StartTask) =>
         LET n == Head(sTasks)
             o == sObs'
         IN /\ o.kind = "start"
            /\ o.n = n
            /\ IF o.exec # Nil
               THEN /\ o.ret = o.exec
                    /\ o.out = <<>>
                    /\ errCh'[n] = Append(errCh[n], [val |-> o.exec, by |-> "loop"])
                    /\ UNCHANGED <<sContainers, sMade, startTasks>>
               ELSE /\ o.ret = errDeferredResponse
                    /\ o.out = <<[Err |-> n, Container |-> sContainers'[tasks[n].id],
                                  StartResponse |-> n]>>
                    /\ sContainers'[tasks[n].id] = sMade'
                    /\ sMade' = sMade + 1
                    /\ n \notin startTasks
                    /\ startTasks' = startTasks \cup {n}
                    /\ errCh'[n] = errCh[n]]_vars

\* runtime.New has failed for the Start task of an id that an earlier Start
\* had put into s.containers: the entry is the earlier one, and no worker has
\* the failed task
C32_NewFailed ==
    /\ sObs.kind = "start"
    /\ sObs.exec = RuntimeError
    /\ sContainers[tasks[sObs.n].id] # NoObj
    /\ sObs.n \notin startTasks
    /\ errCh[sObs.n] = <<[val |-> RuntimeError, by |-> "loop"]>>


\* C33: the handling of an event whose type is none of exit, pause, resume
\* and oom changes neither the table, nor a container object (its process
\* registry, its OOM flag), nor a bundle directory, nor the exit notifiers
\* and their registry, appends nothing to the notification queue, runs no
\* clean-up, and returns nil.
C33_UnhandledTypeChangesNothing ==
    [][(/\ evPc = "handle"
        /\ evPc' = "recv"
        /\ evCur.Type \notin {StateExit, StatePause, StateResume, StateOOM})
       => /\ UNCHANGED <<containers, ctrs, dirs, q, qRunning, exitNotifiers, ens>>
          /\ cleanRes' = "none"
          /\ obs'.kind = "handleEvent"
          /\ obs'.err = Nil]_vars

\* the one event handled so far, for a live container of c1 with a registered
\* process and an exit notifier, has left the queue empty
C33_UnhandledEventHandled ==
    /\ obs.kind = "handleEvent"
    /\ nEvents = 1
    /\ \A k \in Keys : q[k] = <<>>
    /\ containers["c1"] # NoObj
    /\ ctrs[containers["c1"]].processes # {}
    /\ exitNotifiers["c1"] # NoObj


\* C34: the handling of a pause, resume or oom event of a live container
\* leaves the table, the bundle directories and the process registry of the
\* container as they are, runs no clean-up, and appends one closure for that
\* state under the id; the closure hands the backend one notification with
\* that state; and the pause monitor is given a pause or resume, and nothing
\* else, in the step in which the closure ends, StateChanged having returned.
C34_PauseResumeOomKeepContainer ==
    /\ [][(/\ evPc = "handle"
           /\ evPc' = "recv"
           /\ evCur.Type \in {StatePause, StateResume, StateOOM}
           /\ containers[evCur.Id] = evObj)
          => /\ UNCHANGED <<containers, dirs>>
             /\ ctrs'[evObj].processes = ctrs[evObj].processes
             /\ cleanRes' = "none"
             /\ Len(q'[evCur.Id]) = Len(q[evCur.Id]) + 1
             /\ q'[evCur.Id][Len(q'[evCur.Id])].State = evCur.Type
             /\ q'[evCur.Id][Len(q'[evCur.Id])].Id = evCur.Id
             /\ \A k \in Keys \ {evCur.Id} : q'[k] = q[k]]_vars
    /\ [][\A k \in Keys :
            (~qRunning[k] /\ qRunning'[k]
               /\ Head(q[k]).Type \in {StatePause, StateResume, StateOOM})
            => /\ note'.State = Head(q[k]).Type
               /\ note'.Id = Head(q[k]).Id
               /\ obs'.pause = "none"
               /\ q' = q]_vars
    /\ [][\A k \in Keys :
            (qRunning[k] /\ ~qRunning'[k])
            => /\ note' = NoNote
               /\ q'[k] = Tail(q[k])
               /\ obs'.pause = (IF Head(q[k]).Type \in {StatePause, StateResume}
                                THEN Head(q[k]).Type ELSE "none")]_vars
    /\ [][obs'.pause # "none" => \E k \in Keys : qRunning[k] /\ ~qRunning'[k]]_vars

\* the closure of a pause event of c1 has ended and the pause monitor has
\* been told; the container of c1 is live, with its directory and a process
C34_PausedStillLive ==
    /\ obs.kind = "closure"
    /\ obs.pause = StatePause
    /\ containers["c1"] # NoObj
    /\ dirs["c1"]
    /\ ctrs[containers["c1"]].processes # {}


\* C35: a call of TriggerHandleStream(id) that finds no container for id
\* returns the lookup error and changes nothing; one that finds a container
\* goes on to handle an event which is the init Exit with status 0 of id: the
\* step has the effect of handleEvent for that event and the call returns
\* nil; when the container is still the one registered for id, its entry is
\* removed, its directory is removed when the clean-up is on and succeeds,
\* one closure for the exit state with exit code 0 is appended under id and
\* the exit notifiers are left alone; the closure, when it ends, closes and
\* unregisters the exit notifier of id.
C35_TriggerIsInitExit ==
    /\ [][nTriggers' # nTriggers =>
            IF containers["c1"] = NoObj
            THEN /\ trigPc' = "idle"
                 /\ trigRes' = [id |-> "c1", err |-> ErrNotFound, after |-> nEvents]
                 /\ UNCHANGED <<containers, ctrs, dirs, locker, q, qRunning,
                                exitNotifiers, ens, exited>>
            ELSE /\ trigPc' = "handle"
                 /\ trigObj' = containers["c1"]
                 /\ UNCHANGED <<containers, ctrs, dirs, locker, q, qRunning,
                                exitNotifiers, ens, exited>>]_vars
    /\ [][(trigPc = "handle" /\ trigPc' = "idle") =>
            LET e == [Type |-> StateExit, Id |-> "c1", Pid |-> InitFriendlyName,
                      Status |-> 0, Seq |-> trigCur.Seq]
            IN /\ handleEvent(trigObj, e)
               /\ trigRes'.err = Nil
               /\ trigRes'.id = "c1"
               /\ UNCHANGED <<exitNotifiers, ens, locker>>]_vars
    /\ [][(trigPc = "handle" /\ trigPc' = "idle" /\ containers["c1"] = trigObj) =>
            /\ containers'["c1"] = NoObj
            /\ (~noclean /\ cleanRes' = "nil") => ~dirs'["c1"]
            /\ ctrs'[trigObj].processes = ctrs[trigObj].processes
            /\ Len(q'["c1"]) = Len(q["c1"]) + 1
            /\ LET c == q'["c1"][Len(q'["c1"])]
               IN c.State = StateExit /\ c.ExitCode = 0 /\ c.Id = "c1" /\ c.Obj = trigObj
            /\ \A k \in Keys \ {"c1"} : q'[k] = q[k]]_vars
    /\ [][\A k \in Keys :
            (qRunning[k] /\ ~qRunning'[k] /\ Head(q[k]).State = StateExit
               /\ exitNotifiers[Head(q[k]).Id] # NoObj)
            => /\ ens'[exitNotifiers[Head(q[k]).Id]].closes = 1
               /\ exitNotifiers'[Head(q[k]).Id] = NoObj]_vars

\* TriggerHandleStream("c1") has returned nil for the started container of
\* c1: the entry and the directory are gone, the Exit closure is queued and
\* the exit notifier of c1 is not closed yet
C35_TriggeredExitQueued ==
    /\ trigRes.err = Nil
    /\ trigRes.id = "c1"
    /\ exited = {1}
    /\ ctrs[1].systemPid # 0
    /\ containers["c1"] = NoObj
    /\ ~dirs["c1"]
    /\ Len(q["c1"]) = 1
    /\ q["c1"][1].State = StateExit
    /\ exitNotifiers["c1"] # NoObj
    /\ ens[exitNotifiers["c1"]].closes = 0


\* C36: exitNotifier.close removes the registry entry of its id only if that
\* entry is this same notifier: an entry changes only in the step of a caller
\* that holds the map mutex before and after it, is closing the notifier
\* registered under that id, and the entry is then deleted; that step always
\* deletes the entry when it is the notifier being closed. The close of an
\* older notifier therefore never removes a newer one under the same id.
C36_CloseUnregistersOnlyItself ==
    [][/\ \A id \in Ids :
            exitNotifiers'[id] # exitNotifiers[id]
            => \E k \in Closers :
                 /\ mapMutex = k
                 /\ mapMutex' = k
                 /\ closerPc[k] = "locked"
                 /\ ens[closerEn[k]].id = id
                 /\ exitNotifiers[id] = closerEn[k]
                 /\ exitNotifiers'[id] = NoObj
       /\ \A k \in Closers :
            (closerPc[k] = "locked" /\ closerPc'[k] = "unlock"
                /\ exitNotifiers[ens[closerEn[k]].id] = closerEn[k])
            => exitNotifiers'[ens[closerEn[k]].id] = NoObj]_vars

\* an older notifier has been closed to the end while a newer, unclosed one
\* is still registered under the same id
C36_OldClosedNewerRegistered ==
    \E n1, n2 \in 1..Len(ens) :
        /\ n1 < n2
        /\ ens[n1].id = ens[n2].id
        /\ ens[n1].once = "done"
        /\ ens[n2].once = "new"
        /\ exitNotifiers[ens[n2].id] = n2

====
